---- MODULE Spec2Model ----
(***************************************************************************)
(* F1 rating engine: the teammate-based driver Elo replay                  *)
(* (elo_calculation/calculate_driver_elo.py) and the constructor-lineage   *)
(* Glicko-2 replay (elo_calculation/calculate_team_elo.py).                *)
(*                                                                         *)
(* Numbers.  The code computes in IEEE doubles.  The model computes in     *)
(* fixed point: a driver rating is an integer number of thousandths of an  *)
(* Elo point (Scale units per point), an expected or actual score is an    *)
(* integer number of thousandths.  10^x is evaluated from two tables of    *)
(* 10^(k/400) to four decimals, so expected_score is exact to about one    *)
(* thousandth.  A Glicko-2 rating and RD are thousandths of a point, a      *)
(* volatility is thousandths, mu and phi are thousandths on the Glicko-2   *)
(* scale; exp, ln and sqrt are evaluated from tables and by bisection to   *)
(* the model unit, and the convergence tolerance of the volatility solve   *)
(* is one model unit.                                                      *)
(***************************************************************************)
EXTENDS Integers, Sequences, FiniteSets, TLC

VARIABLES
    driver_ratings,   \* self.driver_ratings: tracked driver id -> rating record
    team_ratings,     \* self.team_ratings: lineage id -> ratings and counters
    pc,               \* position of the running program
    call,             \* arguments and return value of the matchup call just made
    pre,              \* driver_ratings as it was when that call was entered
    ncalls,           \* engine calls made so far
    current_season,   \* calculate_all_elos: season of the race fetched last, or NULL
    idx,              \* calculate_all_elos: races fetched so far
    history           \* what the replay has done: normalizations and events, in order

vars == <<driver_ratings, team_ratings, pc, call, pre, ncalls, current_season, idx, history>>
replayVars == <<current_season, idx, history, team_ratings>>

\* None / SQL NULL where a string is expected, and where a number is.
NULL == "<null>"
NaN == 0 - 1

(***************************************************************************)
(* Status strings.  A status is held in the state by name; Chars gives its *)
(* characters, on which the keyword matching of the code works.            *)
(***************************************************************************)
StatusValues == {NULL, "Finished", "+1 Lap", "Engine", "Accident", "Retired"}

Chars(status) ==
    CASE status = "Finished" -> <<"F","i","n","i","s","h","e","d">>
      [] status = "+1 Lap"   -> <<"+","1"," ","L","a","p">>
      [] status = "Engine"   -> <<"E","n","g","i","n","e">>
      [] status = "Accident" -> <<"A","c","c","i","d","e","n","t">>
      [] status = "Retired"  -> <<"R","e","t","i","r","e","d">>
      [] status = ""         -> << >>

MECHANICAL_FAILURES ==
    { <<"E","n","g","i","n","e">>,
      <<"G","e","a","r","b","o","x">>,
      <<"T","r","a","n","s","m","i","s","s","i","o","n">>,
      <<"C","l","u","t","c","h">>,
      <<"H","y","d","r","a","u","l","i","c","s">>,
      <<"E","l","e","c","t","r","i","c","a","l">>,
      <<"E","l","e","c","t","r","o","n","i","c","s">>,
      <<"F","u","e","l"," ","S","y","s","t","e","m">>,
      <<"F","u","e","l"," ","P","u","m","p">>,
      <<"F","u","e","l"," ","P","r","e","s","s","u","r","e">>,
      <<"O","i","l"," ","P","r","e","s","s","u","r","e">>,
      <<"O","i","l"," ","L","e","a","k">>,
      <<"R","a","d","i","a","t","o","r">>,
      <<"C","o","o","l","i","n","g"," ","S","y","s","t","e","m">>,
      <<"W","a","t","e","r"," ","L","e","a","k">>,
      <<"O","v","e","r","h","e","a","t","i","n","g">>,
      <<"S","u","s","p","e","n","s","i","o","n">>,
      <<"B","r","a","k","e","s">>,
      <<"W","h","e","e","l">>,
      <<"W","h","e","e","l"," ","B","e","a","r","i","n","g">>,
      <<"P","u","n","c","t","u","r","e">>,
      <<"D","r","i","v","e","s","h","a","f","t">>,
      <<"C","V"," ","J","o","i","n","t">>,
      <<"D","i","f","f","e","r","e","n","t","i","a","l">>,
      <<"H","a","l","f","s","h","a","f","t">>,
      <<"B","a","t","t","e","r","y">>,
      <<"A","l","t","e","r","n","a","t","o","r">>,
      <<"T","u","r","b","o">>,
      <<"T","h","r","o","t","t","l","e">>,
      <<"F","u","e","l"," ","L","e","a","k">>,
      <<"F","i","r","e">>,
      <<"P","o","w","e","r"," ","U","n","i","t">>,
      <<"E","R","S">>,
      <<"M","G","U","-","K">>,
      <<"M","G","U","-","H">>,
      <<"P","n","e","u","m","a","t","i","c","s">>,
      <<"E","x","h","a","u","s","t">> }

DRIVER_ERRORS ==
    { <<"A","c","c","i","d","e","n","t">>,
      <<"C","o","l","l","i","s","i","o","n">>,
      <<"S","p","u","n"," ","o","f","f">>,
      <<"D","a","m","a","g","e">>,
      <<"C","o","l","l","i","s","i","o","n"," ","d","a","m","a","g","e">>,
      <<"F","a","t","a","l"," ","a","c","c","i","d","e","n","t">>,
      <<"I","n","j","u","r","y">>,
      <<"D","r","i","v","e","r"," ","S","e","a","t">>,
      <<"S","e","a","t">> }

UpperOf ==
    [c \in {"a","b","c","d","e","f","g","h","i","j","k","l","m","n","o","p","q","r","s","t","u","v","w","x","y","z"} |->
        CASE c = "a" -> "A"
          [] c = "b" -> "B"
          [] c = "c" -> "C"
          [] c = "d" -> "D"
          [] c = "e" -> "E"
          [] c = "f" -> "F"
          [] c = "g" -> "G"
          [] c = "h" -> "H"
          [] c = "i" -> "I"
          [] c = "j" -> "J"
          [] c = "k" -> "K"
          [] c = "l" -> "L"
          [] c = "m" -> "M"
          [] c = "n" -> "N"
          [] c = "o" -> "O"
          [] c = "p" -> "P"
          [] c = "q" -> "Q"
          [] c = "r" -> "R"
          [] c = "s" -> "S"
          [] c = "t" -> "T"
          [] c = "u" -> "U"
          [] c = "v" -> "V"
          [] c = "w" -> "W"
          [] c = "x" -> "X"
          [] c = "y" -> "Y"
          [] c = "z" -> "Z"]

\* str.upper()
Upper(s) == [i \in 1..Len(s) |-> IF s[i] \in DOMAIN UpperOf THEN UpperOf[s[i]] ELSE s[i]]

\* Python's `k in s` on strings: k is a contiguous substring of s.
Contains(s, k) ==
    \E i \in 1..(Len(s) - Len(k) + 1) : SubSeq(s, i, i + Len(k) - 1) = k

\* str.startswith
StartsWith(s, k) == Len(s) >= Len(k) /\ SubSeq(s, 1, Len(k)) = k

\* str.strip() for the blank character.
RECURSIVE LStrip(_)
LStrip(s) == IF s # << >> /\ Head(s) = " " THEN LStrip(Tail(s)) ELSE s
RECURSIVE RStrip(_)
RStrip(s) == IF s # << >> /\ s[Len(s)] = " " THEN RStrip(SubSeq(s, 1, Len(s) - 1)) ELSE s
Strip(s) == RStrip(LStrip(s))

is_mechanical_dnf(status) ==
    IF status = NULL \/ status = ""
    THEN FALSE
    ELSE \E failure \in MECHANICAL_FAILURES : Contains(Upper(Chars(status)), Upper(failure))

is_driver_error_dnf(status) ==
    IF status = NULL \/ status = ""
    THEN FALSE
    ELSE \E error \in DRIVER_ERRORS : Contains(Upper(Chars(status)), Upper(error))

is_finished(status) ==
    IF status = NULL
    THEN FALSE
    ELSE \/ Strip(Chars(status)) = <<"F","i","n","i","s","h","e","d">>
         \/ StartsWith(Chars(status), <<"+">>)

\* The three classifications of every status value, evaluated once.
Mechanical == [s \in StatusValues |-> is_mechanical_dnf(s)]
DriverError == [s \in StatusValues |-> is_driver_error_dnf(s)]
Finished == [s \in StatusValues |-> is_finished(s)]

(***************************************************************************)
(* TeammateBasedF1Elo: constants of __init__.                              *)
(***************************************************************************)
Scale == 10 * 10 * 10          \* rating units per Elo point, score units per 1.0
INITIAL_RATING == 1500
ROOKIE_RACES == 30
ELITE_THRESHOLD == 1750
K_ROOKIE == 40
K_ESTABLISHED == 20
K_ELITE == 10

\* The record a defaultdict access creates for a driver not yet tracked.
DefaultRating ==
    [qualifying_elo |-> INITIAL_RATING * Scale,
     race_elo |-> INITIAL_RATING * Scale,
     qualifying_races |-> 0,
     race_races |-> 0,
     ever_elite_qualifying |-> FALSE,
     ever_elite_race |-> FALSE]

\* self.driver_ratings[d] read: the stored record, or the default one.
Rating(dr, d) == IF d \in DOMAIN dr THEN dr[d] ELSE DefaultRating

\* get_k_factor testing the rookie tier before the elite flag.
get_k_factor_rookie_first(current_elo, races_completed, ever_elite) ==
    IF races_completed < ROOKIE_RACES THEN K_ROOKIE
    ELSE IF ever_elite THEN K_ELITE
    ELSE K_ESTABLISHED

get_k_factor(current_elo, races_completed, ever_elite) ==
    IF ever_elite THEN K_ELITE
    ELSE IF races_completed < ROOKIE_RACES THEN K_ROOKIE
    ELSE K_ESTABLISHED

(***************************************************************************)
(* 10 ** (n / 400) for a whole number n of points, in units of 1/PowUnit.  *)
(* n = 400 q + 20 a + b; Pow10A[a+1] = 10^(20a/400), Pow10B[b+1] =         *)
(* 10^(b/400), both to four decimals.                                      *)
(***************************************************************************)
PowUnit == 10 * 10 * 10 * 10
Pow10A == <<10000, 11220, 12589, 14125, 15849, 17783, 19953, 22387, 25119, 28184,
            31623, 35481, 39811, 44668, 50119, 56234, 63096, 70795, 79433, 89125>>
Pow10B == <<10000, 10058, 10116, 10174, 10233, 10292, 10351, 10411, 10471, 10532,
            10593, 10654, 10715, 10777, 10839, 10902, 10965, 11028, 11092, 11156>>

\* x / y rounded to the nearest integer, for x >= 0 and y > 0.
RoundDiv(x, y) == (2 * x + y) \div (2 * y)

RECURSIVE TenTo(_)
TenTo(q) == IF q = 0 THEN 1 ELSE 10 * TenTo(q - 1)

\* 10 ** (r / 400) for 0 <= r < 400.
Pow10Frac(r) == RoundDiv(Pow10A[(r \div 20) + 1] * Pow10B[(r % 20) + 1], PowUnit)

\* 1 / (1 + 10 ** (n / 400)) in score units, for n >= 0 whole points.
\* From 2000 points on the quotient is below half a score unit.
Logistic(n) ==
    IF n >= 2000 THEN 0
    ELSE RoundDiv(Scale * PowUnit, PowUnit + TenTo(n \div 400) * Pow10Frac(n % 400))

\* expected_score(rating_a, rating_b) = 1 / (1 + 10 ** ((rating_b - rating_a) / 400)),
\* the rating difference taken to the nearest whole point.
expected_score(rating_a, rating_b) ==
    IF rating_b >= rating_a
    THEN Logistic(RoundDiv(rating_b - rating_a, Scale))
    ELSE Scale - Logistic(RoundDiv(rating_a - rating_b, Scale))

\* update_rating with a loss counted at half the K-factor.
update_rating_soft_loss(rating, k_factor, actual_score, expected) ==
    IF actual_score < expected
    THEN rating + (k_factor \div 2) * (actual_score - expected)
    ELSE rating + k_factor * (actual_score - expected)

\* rating + k_factor * (actual_score - expected_score)
update_rating(rating, k_factor, actual_score, expected) ==
    rating + k_factor * (actual_score - expected)

\* ApplyResult with the flag following the new rating, so that a loss below
\* the threshold clears it.
ApplyResult_flag_follows_rating(dr, winner_id, loser_id, elo, races, elite) ==
    LET w == Rating(dr, winner_id)
        l == Rating(dr, loser_id)
        winner_expected == expected_score(w[elo], l[elo])
        loser_expected == expected_score(l[elo], w[elo])
        winner_k == get_k_factor(w[elo], w[races], w[elite])
        loser_k == get_k_factor(l[elo], l[races], l[elite])
        new_winner_elo == update_rating(w[elo], winner_k, Scale, winner_expected)
        new_loser_elo == update_rating(l[elo], loser_k, 0, loser_expected)
    IN  [ret |-> TRUE,
         ratings |->
            [x \in DOMAIN dr \cup {winner_id, loser_id} |->
                IF x = winner_id
                THEN [w EXCEPT ![elo] = new_winner_elo,
                               ![races] = @ + 1,
                               ![elite] = new_winner_elo >= ELITE_THRESHOLD * Scale]
                ELSE IF x = loser_id
                THEN [l EXCEPT ![elo] = new_loser_elo,
                               ![races] = @ + 1,
                               ![elite] = new_loser_elo >= ELITE_THRESHOLD * Scale]
                ELSE dr[x]],
         winner |-> winner_id, loser |-> loser_id,
         winner_k |-> winner_k, loser_k |-> loser_k,
         winner_expected |-> winner_expected, loser_expected |-> loser_expected]

\* ApplyResult choosing the K-factors after the counters have grown.
ApplyResult_counting_first(dr, winner_id, loser_id, elo, races, elite) ==
    LET w == Rating(dr, winner_id)
        l == Rating(dr, loser_id)
        winner_expected == expected_score(w[elo], l[elo])
        loser_expected == expected_score(l[elo], w[elo])
        winner_k == get_k_factor(w[elo], w[races] + 1, w[elite])
        loser_k == get_k_factor(l[elo], l[races] + 1, l[elite])
        new_winner_elo == update_rating(w[elo], winner_k, Scale, winner_expected)
        new_loser_elo == update_rating(l[elo], loser_k, 0, loser_expected)
    IN  [ret |-> TRUE,
         ratings |->
            [x \in DOMAIN dr \cup {winner_id, loser_id} |->
                IF x = winner_id
                THEN [w EXCEPT ![elo] = new_winner_elo,
                               ![races] = @ + 1,
                               ![elite] = @ \/ new_winner_elo >= ELITE_THRESHOLD * Scale]
                ELSE IF x = loser_id
                THEN [l EXCEPT ![elo] = new_loser_elo,
                               ![races] = @ + 1,
                               ![elite] = @ \/ new_loser_elo >= ELITE_THRESHOLD * Scale]
                ELSE dr[x]],
         winner |-> winner_id, loser |-> loser_id,
         winner_k |-> winner_k, loser_k |-> loser_k,
         winner_expected |-> winner_expected, loser_expected |-> loser_expected]

(***************************************************************************)
(* Lines 170-208 and 247-285: the rating update of a decided matchup       *)
(* between two distinct drivers, for the session whose fields are elo,     *)
(* races and elite.  The winner is scored 1 and the loser 0, each with the *)
(* K-factor of its own state on entry; both counters grow by one and a     *)
(* new rating at or above the elite threshold sets the driver's flag.      *)
(***************************************************************************)
ApplyResult(dr, winner_id, loser_id, elo, races, elite) ==
    LET w == Rating(dr, winner_id)
        l == Rating(dr, loser_id)
        winner_expected == expected_score(w[elo], l[elo])
        loser_expected == expected_score(l[elo], w[elo])
        winner_k == get_k_factor(w[elo], w[races], w[elite])
        loser_k == get_k_factor(l[elo], l[races], l[elite])
        new_winner_elo == update_rating(w[elo], winner_k, Scale, winner_expected)
        new_loser_elo == update_rating(l[elo], loser_k, 0, loser_expected)
    IN  [ret |-> TRUE,
         ratings |->
            [x \in DOMAIN dr \cup {winner_id, loser_id} |->
                IF x = winner_id
                THEN [w EXCEPT ![elo] = new_winner_elo,
                               ![races] = @ + 1,
                               ![elite] = @ \/ new_winner_elo >= ELITE_THRESHOLD * Scale]
                ELSE IF x = loser_id
                THEN [l EXCEPT ![elo] = new_loser_elo,
                               ![races] = @ + 1,
                               ![elite] = @ \/ new_loser_elo >= ELITE_THRESHOLD * Scale]
                ELSE dr[x]],
         winner |-> winner_id, loser |-> loser_id,
         winner_k |-> winner_k, loser_k |-> loser_k,
         winner_expected |-> winner_expected, loser_expected |-> loser_expected]

\* `return False`: the matchup is excluded and the ratings are not touched.
Excluded(dr) ==
    [ret |-> FALSE, ratings |-> dr, winner |-> NaN, loser |-> NaN,
     winner_k |-> 0, loser_k |-> 0, winner_expected |-> 0, loser_expected |-> 0]

\* process_qualifying_matchup without the mechanical-failure exclusion.
process_qualifying_matchup_no_exclusion(dr, driver1_id, driver2_id, driver1_pos, driver2_pos, driver1_status, driver2_status) ==
    IF driver1_pos < driver2_pos
    THEN ApplyResult(dr, driver1_id, driver2_id,
                     "qualifying_elo", "qualifying_races", "ever_elite_qualifying")
    ELSE ApplyResult(dr, driver2_id, driver1_id,
                     "qualifying_elo", "qualifying_races", "ever_elite_qualifying")

process_qualifying_matchup(dr, driver1_id, driver2_id, driver1_pos, driver2_pos, driver1_status, driver2_status) ==
    IF Mechanical[driver1_status] \/ Mechanical[driver2_status]
    THEN Excluded(dr)
    ELSE IF driver1_pos < driver2_pos
         THEN ApplyResult(dr, driver1_id, driver2_id,
                          "qualifying_elo", "qualifying_races", "ever_elite_qualifying")
         ELSE ApplyResult(dr, driver2_id, driver1_id,
                          "qualifying_elo", "qualifying_races", "ever_elite_qualifying")

\* process_race_matchup deciding a one-sided driver error by position.
process_race_matchup_by_position(dr, driver1_id, driver2_id, driver1_pos, driver2_pos, driver1_status, driver2_status) ==
    IF Mechanical[driver1_status] \/ Mechanical[driver2_status] THEN Excluded(dr)
    ELSE IF DriverError[driver1_status] /\ DriverError[driver2_status] THEN Excluded(dr)
    ELSE IF driver1_pos < driver2_pos
         THEN ApplyResult(dr, driver1_id, driver2_id,
                          "race_elo", "race_races", "ever_elite_race")
         ELSE ApplyResult(dr, driver2_id, driver1_id,
                          "race_elo", "race_races", "ever_elite_race")

\* process_race_matchup without the exclusion of two driver errors.
process_race_matchup_no_double_error(dr, driver1_id, driver2_id, driver1_pos, driver2_pos, driver1_status, driver2_status) ==
    IF Mechanical[driver1_status] \/ Mechanical[driver2_status] THEN Excluded(dr)
    ELSE IF DriverError[driver1_status] /\ ~DriverError[driver2_status]
         THEN ApplyResult(dr, driver2_id, driver1_id,
                          "race_elo", "race_races", "ever_elite_race")
    ELSE IF driver1_pos < driver2_pos
         THEN ApplyResult(dr, driver1_id, driver2_id,
                          "race_elo", "race_races", "ever_elite_race")
         ELSE ApplyResult(dr, driver2_id, driver1_id,
                          "race_elo", "race_races", "ever_elite_race")

\* process_race_matchup incrementing the qualifying counter, as copied from
\* process_qualifying_matchup.
process_race_matchup_counting_qualifying(dr, driver1_id, driver2_id, driver1_pos, driver2_pos, driver1_status, driver2_status) ==
    LET d1_error == DriverError[driver1_status]
        d2_error == DriverError[driver2_status]
        d1_wins == ApplyResult(dr, driver1_id, driver2_id,
                               "race_elo", "qualifying_races", "ever_elite_race")
        d2_wins == ApplyResult(dr, driver2_id, driver1_id,
                               "race_elo", "qualifying_races", "ever_elite_race")
    IN  IF Mechanical[driver1_status] \/ Mechanical[driver2_status] THEN Excluded(dr)
        ELSE IF d1_error /\ d2_error THEN Excluded(dr)
        ELSE IF d1_error /\ (Finished[driver2_status] \/ ~d2_error) THEN d2_wins
        ELSE IF d2_error /\ (Finished[driver1_status] \/ ~d1_error) THEN d1_wins
        ELSE IF driver1_pos < driver2_pos THEN d1_wins
        ELSE d2_wins

process_race_matchup(dr, driver1_id, driver2_id, driver1_pos, driver2_pos, driver1_status, driver2_status) ==
    LET d1_mechanical == Mechanical[driver1_status]
        d2_mechanical == Mechanical[driver2_status]
        d1_error == DriverError[driver1_status]
        d2_error == DriverError[driver2_status]
        d1_finished == Finished[driver1_status]
        d2_finished == Finished[driver2_status]
        d1_wins == ApplyResult(dr, driver1_id, driver2_id,
                               "race_elo", "race_races", "ever_elite_race")
        d2_wins == ApplyResult(dr, driver2_id, driver1_id,
                               "race_elo", "race_races", "ever_elite_race")
    IN  IF d1_mechanical \/ d2_mechanical THEN Excluded(dr)
        ELSE IF d1_error /\ d2_error THEN Excluded(dr)
        ELSE IF d1_error /\ (d2_finished \/ ~d2_error) THEN d2_wins
        ELSE IF d2_error /\ (d1_finished \/ ~d1_error) THEN d1_wins
        ELSE IF driver1_pos < driver2_pos THEN d1_wins
        ELSE d2_wins

\* Sum of f over its domain.
RECURSIVE SumOver(_, _)
SumOver(f, S) ==
    IF S = {} THEN 0
    ELSE LET x == CHOOSE y \in S : TRUE IN f[x] + SumOver(f, S \ {x})

\* np.mean of one field over every tracked driver (the quotient rounded down).
MeanOf(dr, field) ==
    SumOver([d \in DOMAIN dr |-> dr[d][field]], DOMAIN dr) \div Cardinality(DOMAIN dr)

\* normalize_ratings subtracting the means without adding the baseline.
normalize_ratings_to_zero(dr) ==
    IF DOMAIN dr = {} THEN dr
    ELSE LET mean_qualifying == MeanOf(dr, "qualifying_elo")
             mean_race == MeanOf(dr, "race_elo")
         IN  [d \in DOMAIN dr |->
                [dr[d] EXCEPT
                    !.qualifying_elo = dr[d].qualifying_elo - mean_qualifying,
                    !.race_elo = dr[d].race_elo - mean_race]]

\* normalize_ratings shifting the race ratings by the qualifying mean.
normalize_ratings_one_mean(dr) ==
    IF DOMAIN dr = {} THEN dr
    ELSE LET mean_qualifying == MeanOf(dr, "qualifying_elo")
         IN  [d \in DOMAIN dr |->
                [dr[d] EXCEPT
                    !.qualifying_elo = dr[d].qualifying_elo - mean_qualifying
                                       + INITIAL_RATING * Scale,
                    !.race_elo = dr[d].race_elo - mean_qualifying
                                 + INITIAL_RATING * Scale]]

\* normalize_ratings scaling the ratings to the baseline mean (rating *
\* 1500 / mean) instead of shifting them.
normalize_ratings_scaling(dr) ==
    IF DOMAIN dr = {} THEN dr
    ELSE LET mean_qualifying == MeanOf(dr, "qualifying_elo")
             mean_race == MeanOf(dr, "race_elo")
         IN  [d \in DOMAIN dr |->
                [dr[d] EXCEPT
                    !.qualifying_elo = dr[d].qualifying_elo
                        + ((dr[d].qualifying_elo \div Scale)
                              * (INITIAL_RATING * Scale - mean_qualifying))
                          \div (mean_qualifying \div Scale),
                    !.race_elo = dr[d].race_elo
                        + ((dr[d].race_elo \div Scale) * (INITIAL_RATING * Scale - mean_race))
                          \div (mean_race \div Scale)]]

normalize_ratings(dr) ==
    IF DOMAIN dr = {} THEN dr
    ELSE LET mean_qualifying == MeanOf(dr, "qualifying_elo")
             mean_race == MeanOf(dr, "race_elo")
         IN  [d \in DOMAIN dr |->
                [dr[d] EXCEPT
                    !.qualifying_elo = dr[d].qualifying_elo - mean_qualifying
                                       + INITIAL_RATING * Scale,
                    !.race_elo = dr[d].race_elo - mean_race + INITIAL_RATING * Scale]]

(***************************************************************************)
(* SpecEngine: a TeammateBasedF1Elo object under any sequence of calls of  *)
(* its three state-changing methods, from the state __init__ leaves.       *)
(* The caller's arguments are drawn from Drivers, Positions, StatusValues. *)
(***************************************************************************)
Drivers == 1..3
MaxPos == 2
MaxCalls == 2
Positions == 1..MaxPos

NoCall == [op |-> "none"]

EngineInit ==
    /\ driver_ratings = << >>
    /\ pc = "idle"
    /\ call = NoCall
    /\ pre = << >>
    /\ ncalls = 0
    /\ current_season = NaN
    /\ idx = 0
    /\ history = << >>
    /\ team_ratings = << >>

Record(op, d1, d2, p1, p2, s1, s2, r) ==
    [op |-> op, d1 |-> d1, d2 |-> d2, p1 |-> p1, p2 |-> p2, s1 |-> s1, s2 |-> s2,
     ret |-> r.ret, winner |-> r.winner, loser |-> r.loser,
     winner_k |-> r.winner_k, loser_k |-> r.loser_k,
     winner_expected |-> r.winner_expected, loser_expected |-> r.loser_expected]

CallQualifying ==
    /\ pc = "idle"
    /\ ncalls < MaxCalls
    /\ \E d1 \in Drivers, d2 \in Drivers, p1 \in Positions, p2 \in Positions,
          s1 \in StatusValues, s2 \in StatusValues :
        /\ d1 # d2
        /\ LET r == process_qualifying_matchup(driver_ratings, d1, d2, p1, p2, s1, s2)
           IN  /\ driver_ratings' = r.ratings
               /\ call' = Record("qualifying", d1, d2, p1, p2, s1, s2, r)
    /\ pre' = driver_ratings
    /\ pc' = "returned"
    /\ ncalls' = ncalls + 1
    /\ UNCHANGED replayVars

CallRace ==
    /\ pc = "idle"
    /\ ncalls < MaxCalls
    /\ \E d1 \in Drivers, d2 \in Drivers, p1 \in Positions, p2 \in Positions,
          s1 \in StatusValues, s2 \in StatusValues :
        /\ d1 # d2
        /\ LET r == process_race_matchup(driver_ratings, d1, d2, p1, p2, s1, s2)
           IN  /\ driver_ratings' = r.ratings
               /\ call' = Record("race", d1, d2, p1, p2, s1, s2, r)
    /\ pre' = driver_ratings
    /\ pc' = "returned"
    /\ ncalls' = ncalls + 1
    /\ UNCHANGED replayVars

CallNormalize ==
    /\ pc = "idle"
    /\ ncalls < MaxCalls
    /\ driver_ratings' = normalize_ratings(driver_ratings)
    /\ call' = [op |-> "normalize"]
    /\ pre' = driver_ratings
    /\ pc' = "returned"
    /\ ncalls' = ncalls + 1
    /\ UNCHANGED replayVars

\* The call has returned; the caller drops its arguments and goes on.
Return ==
    /\ pc = "returned"
    /\ pc' = "idle"
    /\ call' = NoCall
    /\ pre' = << >>
    /\ UNCHANGED <<driver_ratings, ncalls>>
    /\ UNCHANGED replayVars

EngineNext == CallQualifying \/ CallRace \/ CallNormalize \/ Return

SpecEngine == EngineInit /\ [][EngineNext]_vars

(***************************************************************************)
(* Claims about single matchup calls (checked under SpecEngine).           *)
(***************************************************************************)
IsMatchupCall == pc = "returned" /\ call.op \in {"qualifying", "race"}

\* C1: a qualifying or race matchup in which either status classifies as a
\* mechanical failure returns False and leaves driver_ratings exactly as it
\* was on entry: no rating, counter or flag changes and no record is created.
C1_MechanicalExcluded ==
    (IsMatchupCall /\ (Mechanical[call.s1] \/ Mechanical[call.s2]))
        => (call.ret = FALSE /\ driver_ratings = pre)

\* A race matchup with a mechanical second status, between a tracked and an
\* untracked driver, has returned.
C1_Witness ==
    /\ IsMatchupCall
    /\ call.op = "race"
    /\ Mechanical[call.s2] /\ ~Mechanical[call.s1]
    /\ call.d1 \in DOMAIN pre
    /\ call.d2 \notin DOMAIN pre

\* The session fields a call of the given kind works on.
EloField(op) == IF op = "qualifying" THEN "qualifying_elo" ELSE "race_elo"
RacesField(op) == IF op = "qualifying" THEN "qualifying_races" ELSE "race_races"

\* The call just made updated winner w with score 1 and loser l with score 0,
\* each from its rating on entry with its own K-factor.
ScoredWinLoss(w, l) ==
    /\ call.ret = TRUE
    /\ call.winner = w /\ call.loser = l
    /\ Rating(driver_ratings, w)[EloField(call.op)]
         = Rating(pre, w)[EloField(call.op)] + call.winner_k * (Scale - call.winner_expected)
    /\ Rating(driver_ratings, l)[EloField(call.op)]
         = Rating(pre, l)[EloField(call.op)] + call.loser_k * (0 - call.loser_expected)
    /\ call.winner_expected
         = expected_score(Rating(pre, w)[EloField(call.op)], Rating(pre, l)[EloField(call.op)])
    /\ call.loser_expected
         = expected_score(Rating(pre, l)[EloField(call.op)], Rating(pre, w)[EloField(call.op)])

ExactlyOneError == DriverError[call.s1] # DriverError[call.s2]
NeitherMechanical == ~Mechanical[call.s1] /\ ~Mechanical[call.s2]

\* C2: in a race matchup with exactly one DriverError status and no mechanical
\* status, the error side is the loser (score 0) and the other driver the
\* winner (score 1), whatever the two positions are.
C2_ErrorSideLoses ==
    (IsMatchupCall /\ call.op = "race" /\ ExactlyOneError /\ NeitherMechanical)
        => IF DriverError[call.s1]
           THEN ScoredWinLoss(call.d2, call.d1)
           ELSE ScoredWinLoss(call.d1, call.d2)

\* The error side had the better position and still lost.
C2_Witness ==
    /\ IsMatchupCall /\ call.op = "race"
    /\ DriverError[call.s1] /\ ~DriverError[call.s2] /\ NeitherMechanical
    /\ call.p1 < call.p2
    /\ call.loser = call.d1
    /\ pre # << >>

BothError == DriverError[call.s1] /\ DriverError[call.s2]

\* C3 as claimed: in both session types a matchup with two DriverError
\* statuses is excluded, so nothing changes.
C3_BothErrorExcludedEverywhere ==
    (IsMatchupCall /\ BothError) => driver_ratings = pre

\* C3 as amended: a race matchup with two DriverError statuses is excluded
\* (returns False, nothing changes); a qualifying matchup with two DriverError
\* statuses and no mechanical status is processed and decided by grid
\* position, driver2 winning unless driver1's grid position is lower.
C3_BothErrorExcludedInRace ==
    /\ (IsMatchupCall /\ call.op = "race" /\ BothError)
          => (call.ret = FALSE /\ driver_ratings = pre)
    /\ (IsMatchupCall /\ call.op = "qualifying" /\ BothError /\ NeitherMechanical)
          => IF call.p1 < call.p2
             THEN ScoredWinLoss(call.d1, call.d2)
             ELSE ScoredWinLoss(call.d2, call.d1)

\* A race matchup between two tracked drivers, both with a DriverError status,
\* has returned.
C3_Witness ==
    /\ IsMatchupCall /\ call.op = "race" /\ BothError /\ NeitherMechanical
    /\ call.d1 \in DOMAIN pre /\ call.d2 \in DOMAIN pre

\* The matchup just made was decided by comparing the two positions.
DecidedByPosition ==
    /\ IsMatchupCall /\ call.ret = TRUE
    /\ call.op = "race" => (~DriverError[call.s1] /\ ~DriverError[call.s2])

\* C4 as claimed: a matchup decided by position with equal positions is a
\* draw, so two equally rated drivers keep their ratings.
C4_EqualPositionsDraw ==
    (/\ DecidedByPosition
     /\ call.p1 = call.p2
     /\ Rating(pre, call.d1)[EloField(call.op)] = Rating(pre, call.d2)[EloField(call.op)])
        => /\ Rating(driver_ratings, call.d1)[EloField(call.op)]
                = Rating(pre, call.d1)[EloField(call.op)]
           /\ Rating(driver_ratings, call.d2)[EloField(call.op)]
                = Rating(pre, call.d2)[EloField(call.op)]

(***************************************************************************)
(* SpecNormalize: normalize_ratings on a pool of tracked drivers drawn     *)
(* from Pools, called up to MaxCalls times in a row.                       *)
(***************************************************************************)
PoolElos == {1450123, 1500000, 1745001}

PoolRecords ==
    [qualifying_elo : PoolElos, race_elo : PoolElos,
     qualifying_races : {31}, race_races : {31},
     ever_elite_qualifying : {FALSE}, ever_elite_race : {FALSE}]

Pools == UNION {[S -> PoolRecords] : S \in SUBSET Drivers}

NormalizeInit ==
    /\ driver_ratings \in Pools
    /\ pc = "idle"
    /\ call = NoCall
    /\ pre = << >>
    /\ ncalls = 0
    /\ current_season = NaN
    /\ idx = 0
    /\ history = << >>
    /\ team_ratings = << >>

NormalizeNext == CallNormalize \/ Return

SpecNormalize == NormalizeInit /\ [][NormalizeNext]_vars

\* Sum of one rating field over the pool.
PoolSum(dr, field) == SumOver([d \in DOMAIN dr |-> dr[d][field]], DOMAIN dr)

\* The pool mean of the field is the baseline, to within one rating unit
\* (a thousandth of a point).
MeanIsBaseline(dr, field) ==
    LET n == Cardinality(DOMAIN dr)
    IN  /\ n * INITIAL_RATING * Scale <= PoolSum(dr, field)
        /\ PoolSum(dr, field) < n * INITIAL_RATING * Scale + n

\* Every driver tracked on entry had the same shift, baseline minus the mean
\* on entry, added to the field.
SameShift(field) ==
    \A d \in DOMAIN pre :
        driver_ratings[d][field] - pre[d][field]
            = INITIAL_RATING * Scale - MeanOf(pre, field)

\* C7: after normalize_ratings the mean of each session's ratings over the
\* pool is the baseline 1500, and every tracked driver's rating of a session
\* has been shifted by the same amount, 1500 minus that session's mean before.
C7_NormalizeShift ==
    (pc = "returned" /\ call.op = "normalize" /\ pre # << >>)
        => /\ DOMAIN driver_ratings = DOMAIN pre
           /\ MeanIsBaseline(driver_ratings, "qualifying_elo")
           /\ MeanIsBaseline(driver_ratings, "race_elo")
           /\ SameShift("qualifying_elo")
           /\ SameShift("race_elo")

\* A pool of three, whose two means were off the baseline by different
\* amounts, has been normalized.
C7_Witness ==
    /\ pc = "returned" /\ call.op = "normalize"
    /\ Cardinality(DOMAIN pre) = 3
    /\ MeanOf(pre, "qualifying_elo") > INITIAL_RATING * Scale
    /\ MeanOf(pre, "race_elo") < INITIAL_RATING * Scale
    /\ \E d \in DOMAIN pre : driver_ratings[d].race_elo # pre[d].race_elo

(***************************************************************************)
(* SpecKFactor: get_k_factor on arguments drawn from KFactorElos,          *)
(* 0..MaxRacesCompleted and BOOLEAN.                                       *)
(***************************************************************************)
MaxRacesCompleted == 31
KFactorElos == {1400 * Scale, 1500 * Scale, 1750 * Scale, 1800 * Scale}

KFactorInit ==
    /\ call \in [op : {"get_k_factor"}, current_elo : KFactorElos,
                 races_completed : 0..MaxRacesCompleted, ever_elite : BOOLEAN,
                 ret : {NaN}]
    /\ pc = "idle"
    /\ driver_ratings = << >>
    /\ pre = << >>
    /\ ncalls = 0
    /\ current_season = NaN
    /\ idx = 0
    /\ history = << >>
    /\ team_ratings = << >>

CallKFactor ==
    /\ pc = "idle"
    /\ call.op = "get_k_factor"
    /\ call' = [call EXCEPT !.ret = get_k_factor(call.current_elo, call.races_completed,
                                                  call.ever_elite)]
    /\ pc' = "returned"
    /\ UNCHANGED <<driver_ratings, pre, ncalls>>
    /\ UNCHANGED replayVars

KFactorNext == CallKFactor

SpecKFactor == KFactorInit /\ [][KFactorNext]_vars

MaxRaces == 2

\* The Result rows a driver can have in a race: in team 1 a finisher ahead,
\* a finisher behind and a driver-error retirement without a finishing
\* position; in team 2 a finisher.
Rows ==
    { [team_id |-> 1, grid_position |-> 1, position |-> 1, status |-> "Finished"],
      [team_id |-> 1, grid_position |-> 2, position |-> 2, status |-> "+1 Lap"],
      [team_id |-> 1, grid_position |-> 1, position |-> NaN, status |-> "Accident"],
      [team_id |-> 2, grid_position |-> 1, position |-> 1, status |-> "Finished"] }

\* The results of one race: one row for each driver entered, the entry being
\* nobody, the first two drivers or all three.
Entries == {{}, {d \in Drivers : d <= 2}, Drivers}
ResultSets == UNION {[S -> Rows] : S \in Entries}

\* pd.notna
notna(x) == x # NaN

\* The elements of a set of numbers as an ascending sequence (sort_values).
RECURSIVE Sorted(_)
Sorted(S) ==
    IF S = {} THEN << >>
    ELSE LET m == CHOOSE x \in S : \A y \in S : x <= y
         IN  <<m>> \o Sorted(S \ {m})

\* The pair loops with j over every index but i: each pair in both orders.
PairsFrom_both_orders(drivers) ==
    [k \in 1..(Len(drivers) * (Len(drivers) - 1)) |->
        <<drivers[((k - 1) \div (Len(drivers) - 1)) + 1],
          drivers[IF ((k - 1) % (Len(drivers) - 1)) + 1 < ((k - 1) \div (Len(drivers) - 1)) + 1
                  THEN ((k - 1) % (Len(drivers) - 1)) + 1
                  ELSE ((k - 1) % (Len(drivers) - 1)) + 2]>>]

\* for i in range(len(drivers)): for j in range(i + 1, len(drivers)):
\* the pairs (drivers[i], drivers[j]) in the order the loops visit them.
RECURSIVE PairsFrom(_)
PairsFrom(drivers) ==
    IF Len(drivers) < 2 THEN << >>
    ELSE [j \in 1..(Len(drivers) - 1) |-> <<drivers[1], drivers[j + 1]>>]
         \o PairsFrom(Tail(drivers))

\* What a processed matchup read of a driver's state for its session.
ReadOf(dr, d, session) ==
    [driver |-> d, session |-> session,
     elo |-> Rating(dr, d)[IF session = "qualifying" THEN "qualifying_elo" ELSE "race_elo"],
     races |-> Rating(dr, d)[IF session = "qualifying" THEN "qualifying_races"
                             ELSE "race_races"],
     elite |-> Rating(dr, d)[IF session = "qualifying" THEN "ever_elite_qualifying"
                             ELSE "ever_elite_race"]]

\* A matchup that was applied, as the event's record keeps it.
MatchupOf(session, d1, d2, r) ==
    [session |-> session, d1 |-> d1, d2 |-> d2, winner |-> r.winner, loser |-> r.loser]

\* Lines 446-464: the qualifying and the race matchup of one pair.
\* acc: ratings, the reads and the matchups made so far, and the two
\* matchup counts.
ProcessPair(acc, results, d1, d2) ==
    LET q == IF notna(results[d1].grid_position) /\ notna(results[d2].grid_position)
             THEN process_qualifying_matchup(acc.ratings, d1, d2,
                      results[d1].grid_position, results[d2].grid_position,
                      results[d1].status, results[d2].status)
             ELSE Excluded(acc.ratings)
        r == IF notna(results[d1].position) /\ notna(results[d2].position)
             THEN process_race_matchup(q.ratings, d1, d2,
                      results[d1].position, results[d2].position,
                      results[d1].status, results[d2].status)
             ELSE Excluded(q.ratings)
    IN  [ratings |-> r.ratings,
         reads |-> acc.reads
                   \cup (IF q.ret THEN {ReadOf(acc.ratings, d1, "qualifying"),
                                        ReadOf(acc.ratings, d2, "qualifying")} ELSE {})
                   \cup (IF r.ret THEN {ReadOf(q.ratings, d1, "race"),
                                        ReadOf(q.ratings, d2, "race")} ELSE {}),
         matchups |-> acc.matchups
                      \o (IF q.ret THEN <<MatchupOf("qualifying", d1, d2, q)>> ELSE << >>)
                      \o (IF r.ret THEN <<MatchupOf("race", d1, d2, r)>> ELSE << >>),
         quali_matchups |-> acc.quali_matchups + (IF q.ret THEN 1 ELSE 0),
         race_matchups |-> acc.race_matchups + (IF r.ret THEN 1 ELSE 0)]

RECURSIVE ProcessPairs(_, _, _)
ProcessPairs(acc, results, pairs) ==
    IF pairs = << >> THEN acc
    ELSE ProcessPairs(ProcessPair(acc, results, pairs[1][1], pairs[1][2]),
                      results, Tail(pairs))

\* Lines 435-464: the teams of the race in groupby order; a team with fewer
\* than two rows is skipped, the others have their rows sorted by driver_id.
RECURSIVE ProcessTeams(_, _, _)
ProcessTeams(acc, results, teams) ==
    IF teams = << >> THEN acc
    ELSE LET team_results == {d \in DOMAIN results : results[d].team_id = teams[1]}
             drivers == Sorted(team_results)
         IN  ProcessTeams(IF Cardinality(team_results) < 2 THEN acc
                          ELSE ProcessPairs(acc, results, PairsFrom(drivers)),
                          results, Tail(teams))

\* Lines 424-467 for one race: `continue` on an empty result set.
process_results(dr, results) ==
    LET acc0 == [ratings |-> dr, reads |-> {}, matchups |-> << >>,
                 quali_matchups |-> 0, race_matchups |-> 0]
    IN  IF DOMAIN results = {} THEN acc0
        ELSE ProcessTeams(acc0, results,
                          Sorted({results[d].team_id : d \in DOMAIN results}))

\* Line 404: the race read belongs to another season than the one before.
season_changed_always(season, year) == season # NaN
season_changed(season, year) == season # NaN /\ year # season

Init ==
    /\ driver_ratings = << >>
    /\ pc = "loop"
    /\ call = NoCall
    /\ pre = << >>
    /\ ncalls = 0
    /\ current_season = NaN
    /\ idx = 0
    /\ history = << >>
    /\ team_ratings = << >>

\* Lines 399-406: the loop reads the next race; the ratings are normalized
\* when its season differs from the current one.
FetchRace ==
    /\ pc = "loop"
    /\ idx < MaxRaces
    /\ \E year \in (IF current_season = NaN THEN {1}
                    ELSE {current_season, current_season + 1}) :
        /\ driver_ratings' = IF season_changed(current_season, year)
                             THEN normalize_ratings(driver_ratings)
                             ELSE driver_ratings
        /\ history' = IF season_changed(current_season, year)
                      THEN Append(history, [kind |-> "normalize", season |-> current_season,
                                            matchups |-> 0])
                      ELSE history
        /\ current_season' = year
    /\ idx' = idx + 1
    /\ call' = NoCall
    /\ pre' = << >>
    /\ pc' = "results"
    /\ UNCHANGED <<ncalls, team_ratings>>

\* Lines 408-467: the race's results are read and every teammate pair is
\* processed.
ProcessRace ==
    /\ pc = "results"
    /\ \E results \in ResultSets :
        LET acc == process_results(driver_ratings, results)
        IN  /\ driver_ratings' = acc.ratings
            /\ call' = [op |-> "event", results |-> results, reads |-> acc.reads,
                        matchups |-> acc.matchups,
                        quali_matchups |-> acc.quali_matchups,
                        race_matchups |-> acc.race_matchups]
            /\ history' = Append(history,
                                 [kind |-> "event", season |-> current_season,
                                  matchups |-> acc.quali_matchups + acc.race_matchups])
    /\ pre' = driver_ratings
    /\ pc' = "loop"
    /\ UNCHANGED <<ncalls, current_season, idx, team_ratings>>

\* Lines 474-476: the races are exhausted; the last season is normalized.
FinalNormalize ==
    /\ pc = "loop"
    /\ driver_ratings' = IF current_season # NaN
                         THEN normalize_ratings(driver_ratings)
                         ELSE driver_ratings
    /\ history' = IF current_season # NaN
                  THEN Append(history, [kind |-> "normalize", season |-> current_season,
                                        matchups |-> 0])
                  ELSE history
    /\ call' = NoCall
    /\ pre' = << >>
    /\ pc' = "done"
    /\ UNCHANGED <<ncalls, current_season, idx, team_ratings>>

Next == FetchRace \/ ProcessRace \/ FinalNormalize

Spec == Init /\ [][Next]_vars

(***************************************************************************)
(* Claims about the driver replay.                                         *)
(***************************************************************************)
\* The state a driver held in `pre` for the session a matchup read.
PreEventRead(rd) ==
    [driver |-> rd.driver, session |-> rd.session,
     elo |-> Rating(pre, rd.driver)[IF rd.session = "qualifying" THEN "qualifying_elo"
                                    ELSE "race_elo"],
     races |-> Rating(pre, rd.driver)[IF rd.session = "qualifying" THEN "qualifying_races"
                                      ELSE "race_races"],
     elite |-> Rating(pre, rd.driver)[IF rd.session = "qualifying"
                                      THEN "ever_elite_qualifying"
                                      ELSE "ever_elite_race"]]

\* C6: within one event every processed matchup reads, for both of its
\* drivers, the rating, the races-processed count and the ever-elite flag
\* the driver held before the event began.
C6_PreEventReads ==
    (pc = "loop" /\ call.op = "event") =>
        \A rd \in call.reads : rd = PreEventRead(rd)

\* C8: between two consecutive events of the replay the ratings are
\* normalized exactly once when the events belong to different seasons S
\* and S' (the normalization closing S, after all of S's matchups and
\* before any of S'), and not at all when they belong to the same season.
\* history lists the events and the normalizations in the order they took
\* place: two events with nothing between them are of one season; a
\* normalization follows an event, is that event's season's, and what
\* follows it is an event of another season.
C8_OncePerSeasonTransition ==
    \A i \in 1..Len(history) :
        /\ (history[i].kind = "event" /\ i < Len(history)
                /\ history[i + 1].kind = "event")
              => history[i + 1].season = history[i].season
        /\ history[i].kind = "normalize"
              => /\ i > 1
                 /\ history[i - 1].kind = "event"
                 /\ history[i].season = history[i - 1].season
                 /\ i < Len(history) =>
                       /\ history[i + 1].kind = "event"
                       /\ history[i + 1].season # history[i].season

\* An event of one season with matchups, one normalization, then an event
\* of the next season with matchups.
C8_Witness ==
    \E i \in 1..Len(history) :
        /\ i + 2 <= Len(history)
        /\ history[i].kind = "event" /\ history[i].matchups > 0
        /\ history[i + 1].kind = "normalize"
        /\ history[i + 2].kind = "event" /\ history[i + 2].matchups > 0
        /\ history[i].season # history[i + 2].season

(***************************************************************************)
(* calculate_team_elo.py: Glicko-2 ratings of constructor lineages.        *)
(*                                                                         *)
(* Every real number of the team calculator is an integer number of        *)
(* thousandths (Scale): ratings and RD in thousandths of a point, mu, phi, *)
(* g, E, v, delta, the volatility and its logarithm in thousandths.        *)
(***************************************************************************)
Abs(x) == IF x >= 0 THEN x ELSE 0 - x

\* x / y to the nearest integer, for y > 0 and x of either sign.
Quot(x, y) ==
    IF x >= 0 THEN (x + y \div 2) \div y ELSE 0 - ((0 - x + y \div 2) \div y)

\* x / y to the nearest integer, for y # 0.
QuotS(x, y) == IF y > 0 THEN Quot(x, y) ELSE Quot(0 - x, 0 - y)

\* x / y as a scaled quotient, for y > 0; the product x * Scale is avoided
\* where it would leave the integer range.
Ratio(x, y) ==
    IF Abs(x) <= 2000000 THEN Quot(x * Scale, y)
    ELSE IF Abs(x) <= 200000000 THEN Quot(x * 10, Quot(y, 100))
    ELSE Quot(x, Quot(y, Scale))

\* x ** 2 of a scaled x, likewise.
Square(x) ==
    IF Abs(x) < 40000 THEN Quot(x * x, Scale) ELSE Quot(x, 100) * Quot(x, 10)

\* np.clip
Clip(x, lo, hi) == IF x < lo THEN lo ELSE IF x > hi THEN hi ELSE x

\* e^(a/10), e^(b/100), e^(c/1000) for a digit, in units of 1/PowUnit, and
\* e^q for q = 0..9 in thousandths.
ExpA == <<10000, 11052, 12214, 13499, 14918, 16487, 18221, 20138, 22255, 24596>>
ExpB == <<10000, 10101, 10202, 10305, 10408, 10513, 10618, 10725, 10833, 10942>>
ExpC == <<10000, 10010, 10020, 10030, 10040, 10050, 10060, 10070, 10080, 10090>>
EPow == <<1000, 2718, 7389, 20086, 54598, 148413, 403429, 1096633, 2980958, 8103084>>

\* e^(r/1000) for 0 <= r < 1000, in units of 1/PowUnit.
ExpFrac(r) ==
    Quot(Quot(ExpA[(r \div 100) + 1] * ExpB[((r \div 10) % 10) + 1], PowUnit)
         * ExpC[(r % 10) + 1], PowUnit)

\* np.exp(x): x and the result in thousandths, x < 10.  Below e^-9 the
\* result is less than half a thousandth.
ExpOf(q, frac) ==
    IF q < 0 - 9 THEN 0
    ELSE IF q < 0 THEN Quot(frac * 100, EPow[1 - q])
    ELSE IF q <= 4 THEN Quot(frac * EPow[q + 1], PowUnit)
    ELSE Quot(frac, 100) * Quot(EPow[q + 1], 100)

Exp(x) == ExpOf(x \div Scale, ExpFrac(x % Scale))

\* The greatest x in lo..hi with Exp(x) <= y.
RECURSIVE LnBetween(_, _, _)
LnBetween(y, lo, hi) ==
    IF lo >= hi THEN lo
    ELSE LET mid == (lo + hi + 1) \div 2
         IN  IF Exp(mid) <= y THEN LnBetween(y, mid, hi)
             ELSE LnBetween(y, lo, mid - 1)

\* np.log(y) for y > 0 in thousandths.
Ln(y) == LnBetween(y, 0 - 9 * Scale, 10 * Scale - 1)

\* The greatest r in lo..hi with r * r <= n.
RECURSIVE SqrtBetween(_, _, _)
SqrtBetween(n, lo, hi) ==
    IF lo >= hi THEN lo
    ELSE LET mid == (lo + hi + 1) \div 2
         IN  IF mid * mid <= n THEN SqrtBetween(n, mid, hi)
             ELSE SqrtBetween(n, lo, mid - 1)

\* np.sqrt(n) to the nearest integer, for 0 <= n < 2^31.
NearestRoot(n, r) == IF n - r * r > r THEN r + 1 ELSE r

Sqrt(n) == NearestRoot(n, SqrtBetween(n, 0, 46340))

\* Glicko2Rating.__init__ defaults and the constants of the Glicko-2 scale.
GLICKO_RATING == 1500
GLICKO_RD == 350
GLICKO_VOLATILITY == 60         \* 0.06
GLICKO_SCALE == 173718          \* 173.7178
PI_SQUARED == 9870              \* np.pi ** 2
tau == 500                      \* 0.5
epsilon == 1                    \* 0.000001, raised to the unit of the model
max_iterations == 100
MIN_RATING == 800
MAX_RATING == 2200
MIN_RD == 30
MIN_VOLATILITY == 10            \* 0.01
MAX_VOLATILITY == 500           \* 0.5

Glicko2Rating ==
    [rating |-> GLICKO_RATING * Scale, rd |-> GLICKO_RD * Scale,
     volatility |-> GLICKO_VOLATILITY]

to_glicko_scale(r) ==
    [mu |-> Quot((r.rating - GLICKO_RATING * Scale) * Scale, GLICKO_SCALE),
     phi |-> Quot(r.rd * Scale, GLICKO_SCALE)]

from_glicko_scale(r, mu, phi) ==
    [r EXCEPT !.rating = GLICKO_RATING * Scale + Quot(mu * GLICKO_SCALE, Scale),
              !.rd = Quot(phi * GLICKO_SCALE, Scale)]

\* 1 / np.sqrt(1 + 3 * phi**2 / np.pi**2)
g_function(phi) ==
    Quot(Scale * Scale, Sqrt((Scale + Quot(3 * phi * phi, PI_SQUARED)) * Scale))

\* 1 / (1 + np.exp(exponent)), exponent = -g(phi_j) * (mu - mu_j) clipped to
\* [-500, 500].  Above 9 the quotient is less than half a thousandth.
Sigmoid(exponent) ==
    IF exponent > 9 * Scale THEN 0 ELSE Quot(Scale * Scale, Scale + Exp(exponent))

E_function(mu, mu_j, phi_j) ==
    Sigmoid(Clip(Quot(0 - g_function(phi_j) * (mu - mu_j), Scale),
                 0 - 500 * Scale, 500 * Scale))

\* Lines 159-164: the sum of g(phi_j)^2 * E * (1 - E) over the opponents.
v_term(g_phi_j, E_val) ==
    Quot(Quot(g_phi_j * g_phi_j, Scale) * Quot(E_val * (Scale - E_val), Scale), Scale)

RECURSIVE v_sum(_, _, _)
v_sum(mu, opponents, j) ==
    IF j > Len(opponents) THEN 0
    ELSE LET opp == to_glicko_scale(opponents[j])
         IN  v_term(g_function(opp.phi), E_function(mu, opp.mu, opp.phi))
             + v_sum(mu, opponents, j + 1)

\* Lines 168-173 and 223-228: the sum of g(phi_j) * (outcome - E) over the
\* opponents.
RECURSIVE delta_sum(_, _, _, _)
delta_sum(mu, opponents, outcomes, j) ==
    IF j > Len(opponents) THEN 0
    ELSE LET opp == to_glicko_scale(opponents[j])
         IN  Quot(g_function(opp.phi) * (outcomes[j] - E_function(mu, opp.mu, opp.phi)),
                  Scale)
             + delta_sum(mu, opponents, outcomes, j + 1)

\* 1e10, the variance of a rating period that carries no information, held
\* at the largest power of ten of the model's integers.
NO_INFORMATION == 1000000000

\* Lines 180-186: f(x), with a = log(sigma**2), delta2 = delta**2 and
\* phi2 = phi**2.
f_at(ex, x, a, delta2, phi2, v) ==
    Quot(Ratio(ex, phi2 + v + ex) * Ratio(delta2 - phi2 - v - ex, phi2 + v + ex), 2 * Scale)
    - Quot((x - a) * Scale, Quot(tau * tau, Scale))

f(x, a, delta2, phi2, v) == f_at(Exp(x), x, a, delta2, phi2, v)

\* Lines 192-194: k = 1; while k < 100 and f(a - k * tau) < 0: k += 1
RECURSIVE bracket(_, _, _, _, _)
bracket(k, a, delta2, phi2, v) ==
    IF k < 100 /\ f(a - k * tau, a, delta2, phi2, v) < 0
    THEN bracket(k + 1, a, delta2, phi2, v)
    ELSE k

\* Line 202, the loop test, on the loop's variables s = [A, B, fA, fB,
\* iteration].  fB = fA with B # A leaves the quotient of line 203 without
\* a finite value (inf or nan, no exception): the loop ends there.
loop_continues_while_apart(s) == Abs(s.B - s.A) > epsilon /\ s.fB # s.fA

loop_continues(s) ==
    Abs(s.B - s.A) > epsilon /\ s.iteration < max_iterations /\ s.fB # s.fA

\* Lines 203-212, one iteration: C and fC are the new B and fB.
iterated(s, C, fC) ==
    IF (fC < 0 /\ s.fB > 0) \/ (fC > 0 /\ s.fB < 0)
    THEN [A |-> s.B, B |-> C, fA |-> s.fB, fB |-> fC, iteration |-> s.iteration + 1]
    ELSE [A |-> s.A, B |-> C, fA |-> Quot(s.fA, 2), fB |-> fC, iteration |-> s.iteration + 1]

loop_body(s, a, delta2, phi2, v) ==
    iterated(s, s.A + QuotS((s.A - s.B) * s.fA, s.fB - s.fA),
             f(s.A + QuotS((s.A - s.B) * s.fA, s.fB - s.fA), a, delta2, phi2, v))

\* Lines 202-212: the root-finding loop; its variables when it ends.
RECURSIVE illinois(_, _, _, _, _)
illinois(s, a, delta2, phi2, v) ==
    IF loop_continues(s) THEN illinois(loop_body(s, a, delta2, phi2, v), a, delta2, phi2, v)
    ELSE s

\* Lines 176-216: the new volatility.
\* Lines 188-195: the other end B of the bracket.
bracket_end(a, delta2, phi2, v) ==
    IF delta2 > phi2 + v THEN Ln(delta2 - phi2 - v)
    ELSE a - bracket(1, a, delta2, phi2, v) * tau

\* Lines 197-200: the loop's variables before its first iteration.
loop_entry(a, B, delta2, phi2, v) ==
    [A |-> a, B |-> B, fA |-> f(a, a, delta2, phi2, v), fB |-> f(B, a, delta2, phi2, v),
     iteration |-> 0]

\* Lines 214-215: exp(A / 2) clipped.
clipped_sigma(A) == Clip(Exp(A \div 2), MIN_VOLATILITY, MAX_VOLATILITY)

solve(a, B, delta2, phi2, v) ==
    clipped_sigma(illinois(loop_entry(a, B, delta2, phi2, v), a, delta2, phi2, v).A)

volatility_from(a, delta2, phi2, v) == solve(a, bracket_end(a, delta2, phi2, v), delta2, phi2, v)

\* Lines 176-216: the new volatility; log(sigma**2) is 2 * log(sigma).
new_volatility(sigma, delta, phi, v) ==
    volatility_from(2 * Ln(sigma), Square(delta), Quot(phi * phi, Scale), v)

\* clamped without the bounds on the rating and the RD.
clamped_not_at_all(stored, new_sigma) ==
    [rating |-> stored.rating, rd |-> stored.rd, volatility |-> new_sigma]

\* Lines 218-235: the new phi and mu, stored and clamped.
clamped(stored, new_sigma) ==
    [rating |-> Clip(stored.rating, MIN_RATING * Scale, MAX_RATING * Scale),
     rd |-> Clip(stored.rd, MIN_RD * Scale, GLICKO_RD * Scale),
     volatility |-> new_sigma]

\* new_phi = 1 / sqrt(1 / phi_star**2 + 1 / v)
new_phi_of(phi_star, v) ==
    Quot(Scale * Scale,
         Sqrt(Quot(Scale * Scale * Scale, Quot(phi_star * phi_star, Scale))
              + Quot(Scale * Scale * Scale, v)))

store_phi(rating, mu, new_phi, mu_update, new_sigma) ==
    clamped(from_glicko_scale(rating,
                              mu + Quot(Quot(new_phi * new_phi, Scale) * mu_update, Scale),
                              new_phi),
            new_sigma)

store(rating, mu, phi, v, mu_update, new_sigma) ==
    store_phi(rating, mu, new_phi_of(Sqrt(phi * phi + new_sigma * new_sigma), v),
              mu_update, new_sigma)

\* Line 165: v = 1 / v_sum if v_sum > 0 else 1e10
variance(vs) == IF vs > 0 THEN Quot(Scale * Scale, vs) ELSE NO_INFORMATION

\* Lines 174-235, from v and the sum of g * (outcome - E): delta = v * sum.
rating_period(rating, own, v, mu_update) ==
    store(rating, own.mu, own.phi, v, mu_update,
          new_volatility(rating.volatility, Quot(v * mu_update, Scale), own.phi, v))

\* update_glicko2(rating, opponents, outcomes): the rating after the rating
\* period.  Without opponents sqrt(rd**2 + volatility**2) is rd plus
\* volatility**2 / (sqrt(rd**2 + volatility**2) + rd), the divisor taken as
\* 2 * rd.
update_glicko2(rating, opponents, outcomes) ==
    IF opponents = << >>
    THEN [rating EXCEPT !.rd = IF @ + Quot(rating.volatility * rating.volatility, 2 * @)
                                    < GLICKO_RD * Scale
                               THEN @ + Quot(rating.volatility * rating.volatility, 2 * @)
                               ELSE GLICKO_RD * Scale]
    ELSE rating_period(rating, to_glicko_scale(rating),
                       variance(v_sum(to_glicko_scale(rating).mu, opponents, 1)),
                       delta_sum(to_glicko_scale(rating).mu, opponents, outcomes, 1))

(***************************************************************************)
(* ConstructorLineage: the rebrand table; get_lineage lower-cases the      *)
(* reference, replaces spaces and hyphens by underscores and looks the     *)
(* result up, returning the reference itself when it is no key.            *)
(***************************************************************************)
LINEAGE_MAP ==
    <<[key |-> <<"j","o","r","d","a","n">>, lineage |-> "jordan_lineage"],
      [key |-> <<"m","i","d","l","a","n","d">>, lineage |-> "jordan_lineage"],
      [key |-> <<"s","p","y","k","e","r">>, lineage |-> "jordan_lineage"],
      [key |-> <<"f","o","r","c","e","_","i","n","d","i","a">>, lineage |-> "jordan_lineage"],
      [key |-> <<"r","a","c","i","n","g","_","p","o","i","n","t">>, lineage |-> "jordan_lineage"],
      [key |-> <<"a","s","t","o","n","_","m","a","r","t","i","n">>, lineage |-> "jordan_lineage"],
      [key |-> <<"s","t","e","w","a","r","t">>, lineage |-> "redbull_lineage"],
      [key |-> <<"j","a","g","u","a","r">>, lineage |-> "redbull_lineage"],
      [key |-> <<"r","e","d","_","b","u","l","l">>, lineage |-> "redbull_lineage"],
      [key |-> <<"s","a","u","b","e","r">>, lineage |-> "sauber_lineage"],
      [key |-> <<"b","m","w","_","s","a","u","b","e","r">>, lineage |-> "sauber_lineage"],
      [key |-> <<"a","l","f","a">>, lineage |-> "sauber_lineage"],
      [key |-> <<"t","o","r","o","_","r","o","s","s","o">>, lineage |-> "toro_rosso_lineage"],
      [key |-> <<"a","l","p","h","a","t","a","u","r","i">>, lineage |-> "toro_rosso_lineage"],
      [key |-> <<"r","b">>, lineage |-> "toro_rosso_lineage"],
      [key |-> <<"b","e","n","e","t","t","o","n">>, lineage |-> "renault_lineage"],
      [key |-> <<"r","e","n","a","u","l","t">>, lineage |-> "renault_lineage"],
      [key |-> <<"l","o","t","u","s","_","f","1">>, lineage |-> "renault_lineage"],
      [key |-> <<"a","l","p","i","n","e">>, lineage |-> "renault_lineage"],
      [key |-> <<"t","y","r","r","e","l","l">>, lineage |-> "mercedes_lineage"],
      [key |-> <<"b","a","r">>, lineage |-> "mercedes_lineage"],
      [key |-> <<"h","o","n","d","a">>, lineage |-> "mercedes_lineage"],
      [key |-> <<"b","r","a","w","n">>, lineage |-> "mercedes_lineage"],
      [key |-> <<"m","e","r","c","e","d","e","s">>, lineage |-> "mercedes_lineage"]>>

LowerOf ==
    [c \in {"A","B","C","D","E","F","G","H","I","J","K","L","M","N","O","P","Q","R","S","T","U","V","W","X","Y","Z"} |->
        CASE c = "A" -> "a"
          [] c = "B" -> "b"
          [] c = "C" -> "c"
          [] c = "D" -> "d"
          [] c = "E" -> "e"
          [] c = "F" -> "f"
          [] c = "G" -> "g"
          [] c = "H" -> "h"
          [] c = "I" -> "i"
          [] c = "J" -> "j"
          [] c = "K" -> "k"
          [] c = "L" -> "l"
          [] c = "M" -> "m"
          [] c = "N" -> "n"
          [] c = "O" -> "o"
          [] c = "P" -> "p"
          [] c = "Q" -> "q"
          [] c = "R" -> "r"
          [] c = "S" -> "s"
          [] c = "T" -> "t"
          [] c = "U" -> "u"
          [] c = "V" -> "v"
          [] c = "W" -> "w"
          [] c = "X" -> "x"
          [] c = "Y" -> "y"
          [] c = "Z" -> "z"]

\* The constructorRef column of constructors.csv, by constructorId.
constructors_df == <<"brawn", "mercedes", "ferrari", "Red Bull">>

\* The characters of a constructor reference.
RefChars(constructor_ref) ==
    CASE constructor_ref = "brawn"    -> <<"b","r","a","w","n">>
      [] constructor_ref = "mercedes" -> <<"m","e","r","c","e","d","e","s">>
      [] constructor_ref = "ferrari"  -> <<"f","e","r","r","a","r","i">>
      [] constructor_ref = "Red Bull" -> <<"R","e","d"," ","B","u","l","l">>
      [] constructor_ref = "red_bull" -> <<"r","e","d","_","b","u","l","l">>
      [] constructor_ref = "Red-Bull" -> <<"R","e","d","-","B","u","l","l">>
      [] constructor_ref = "redbull"  -> <<"r","e","d","b","u","l","l">>
      [] constructor_ref = "RB"       -> <<"R","B">>
      [] constructor_ref = "Ferrari"  -> <<"F","e","r","r","a","r","i">>
      [] constructor_ref = "force-india" -> <<"f","o","r","c","e","-","i","n","d","i","a">>
      [] constructor_ref = "Lotus F1" -> <<"L","o","t","u","s"," ","F","1">>
      [] constructor_ref = "team_lotus" -> <<"t","e","a","m","_","l","o","t","u","s">>
      [] constructor_ref = "alfa"     -> <<"a","l","f","a">>
      [] constructor_ref = "alfa romeo" -> <<"a","l","f","a"," ","r","o","m","e","o">>
      [] constructor_ref = "BMW-Sauber" -> <<"B","M","W","-","S","a","u","b","e","r">>
      [] constructor_ref = "mercedes_lineage" -> <<"m","e","r","c","e","d","e","s","_","l","i","n","e","a","g","e">>
      [] constructor_ref = ""         -> << >>

\* constructor_ref.lower().replace(' ', '_').replace('-', '_')
NormalizedRef(s) ==
    [i \in 1..Len(s) |->
        IF s[i] \in DOMAIN LowerOf THEN LowerOf[s[i]]
        ELSE IF s[i] \in {" ", "-"} THEN "_"
        ELSE s[i]]

\* get_lineage without the second replace: hyphens are kept.
get_lineage_keeping_hyphens(constructor_ref) ==
    LET s == RefChars(constructor_ref)
        ref == [i \in 1..Len(s) |->
                   IF s[i] \in DOMAIN LowerOf THEN LowerOf[s[i]]
                   ELSE IF s[i] = " " THEN "_" ELSE s[i]]
    IN  IF \E i \in 1..Len(LINEAGE_MAP) : LINEAGE_MAP[i].key = ref
        THEN LINEAGE_MAP[CHOOSE i \in 1..Len(LINEAGE_MAP) : LINEAGE_MAP[i].key = ref].lineage
        ELSE constructor_ref

get_lineage(constructor_ref) ==
    LET ref == NormalizedRef(RefChars(constructor_ref))
    IN  IF \E i \in 1..Len(LINEAGE_MAP) : LINEAGE_MAP[i].key = ref
        THEN LINEAGE_MAP[CHOOSE i \in 1..Len(LINEAGE_MAP) : LINEAGE_MAP[i].key = ref].lineage
        ELSE constructor_ref

\* The lineage of each constructor of constructors.csv.
LineageOf == [c \in 1..Len(constructors_df) |-> get_lineage(constructors_df[c])]

\* load_data, lines 116-126: every lineage of constructors.csv starts with
\* two fresh Glicko-2 ratings and empty counters.
load_data ==
    [lineage_id \in {LineageOf[c] : c \in 1..Len(constructors_df)} |->
        [qualifying |-> Glicko2Rating, race |-> Glicko2Rating,
         first_race_id |-> NaN, last_race_id |-> NaN, total_races |-> 0,
         qualifying_matchups |-> 0, race_matchups |-> 0]]

\* The elements of a sequence in the order of their first occurrence (unique()).
RECURSIVE Unique(_, _)
Unique(seen, s) ==
    IF s = << >> THEN seen
    ELSE Unique(IF \E i \in 1..Len(seen) : seen[i] = Head(s) THEN seen
                ELSE Append(seen, Head(s)), Tail(s))

RECURSIVE SeqSum(_)
SeqSum(s) == IF s = << >> THEN 0 ELSE Head(s) + SeqSum(Tail(s))

\* Lines 265-284: the car performance of one result row, in thousandths of
\* a performance point; the empty sequence when the row gives none.
car_performance(result, session_type, driver_elos) ==
    LET driver_elo == driver_elos[result.driverId][IF session_type = "race" THEN "race_elo"
                                                   ELSE "qualifying_elo"]
        place == IF session_type = "race" THEN result.positionOrder ELSE result.grid
        raw_performance == IF 100 - (place - 1) * 5 > 0 THEN 100 - (place - 1) * 5 ELSE 0
        driver_contribution == Quot(driver_elo - 1500 * Scale, 10)
    IN  IF result.driverId \notin DOMAIN driver_elos THEN << >>
        ELSE IF notna(place) /\ place > 0
        THEN <<raw_performance * Scale - driver_contribution>>
        ELSE << >>

RECURSIVE adjusted_performances(_, _, _)
adjusted_performances(race_results, session_type, driver_elos) ==
    IF race_results = << >> THEN << >>
    ELSE car_performance(Head(race_results), session_type, driver_elos)
         \o adjusted_performances(Tail(race_results), session_type, driver_elos)

RECURSIVE SeqMax(_)
SeqMax(s) ==
    IF Len(s) = 1 THEN s[1]
    ELSE IF Head(s) > SeqMax(Tail(s)) THEN Head(s) ELSE SeqMax(Tail(s))

\* get_driver_adjusted_performance returning the best driver's value in
\* place of the average.
get_driver_adjusted_performance_best(results, constructor_id, session_type, driver_elos) ==
    LET race_results == SelectSeq(results, LAMBDA r : r.constructorId = constructor_id)
        adjusted == adjusted_performances(race_results, session_type, driver_elos)
    IN  IF adjusted = << >> THEN [value |-> 0, count |-> 0]
        ELSE [value |-> SeqMax(adjusted), count |-> Len(adjusted)]

\* get_driver_adjusted_performance: (None, 0) is count 0.
get_driver_adjusted_performance(results, constructor_id, session_type, driver_elos) ==
    LET race_results == SelectSeq(results, LAMBDA r : r.constructorId = constructor_id)
        adjusted == adjusted_performances(race_results, session_type, driver_elos)
    IN  IF adjusted = << >> THEN [value |-> 0, count |-> 0]
        ELSE [value |-> Quot(SeqSum(adjusted), Len(adjusted)), count |-> Len(adjusted)]

\* Lines 307-309: lineage_performance[lineage_id] = adjusted_perf when the
\* lineage is new or the value is greater than the one it holds.
SetPerformance(lineage_performance, lineage_id, adjusted_perf) ==
    IF \E i \in 1..Len(lineage_performance) : lineage_performance[i].lineage = lineage_id
    THEN [i \in 1..Len(lineage_performance) |->
             IF lineage_performance[i].lineage = lineage_id
                /\ adjusted_perf > lineage_performance[i].perf
             THEN [lineage |-> lineage_id, perf |-> adjusted_perf]
             ELSE lineage_performance[i]]
    ELSE Append(lineage_performance, [lineage |-> lineage_id, perf |-> adjusted_perf])

\* Lines 298-309 and 360-371: the performance of each lineage of the event,
\* in the order in which the lineages first obtain one.
RECURSIVE lineage_performances(_, _, _, _, _)
lineage_performances(acc, constructors, results, session_type, driver_elos) ==
    IF constructors = << >> THEN acc
    ELSE LET constructor_id == Head(constructors)
             p == get_driver_adjusted_performance(results, constructor_id, session_type,
                                                  driver_elos)
         IN  lineage_performances(
                 IF constructor_id \in 1..Len(constructors_df) /\ p.count > 0
                 THEN SetPerformance(acc, LineageOf[constructor_id], p.value)
                 ELSE acc,
                 Tail(constructors), results, session_type, driver_elos)

\* Lines 324-330: the outcome of a against b.
outcome(perf_a, perf_b) ==
    IF perf_a > perf_b THEN Scale
    ELSE IF perf_a < perf_b THEN 0
    ELSE Scale \div 2

\* opponents_of with each pair entered in the update of its first lineage only.
opponents_of_later(k, n) == [i \in 1..(n - k) |-> k + i]

\* Lines 320-342: the positions of the opponents of the k-th lineage in the
\* order in which the pair loops append them to its update.
opponents_of(k, n) == [i \in 1..(n - 1) |-> IF i < k THEN i ELSE i + 1]

matchups_field(session_type) ==
    IF session_type = "race" THEN "race_matchups" ELSE "qualifying_matchups"

\* Lines 345-349: the k-th and later updates, one lineage after the other.
\* The opponents are copied from the ratings held when the lineage's turn
\* comes.  acc.fed records what each update was given.
RECURSIVE apply_updates(_, _, _, _)
apply_updates(acc, lineage_performance, session_type, k) ==
    IF k > Len(lineage_performance) THEN acc
    ELSE LET lineage_id == lineage_performance[k].lineage
             others == opponents_of(k, Len(lineage_performance))
             opponent_ids == [i \in 1..Len(others) |-> lineage_performance[others[i]].lineage]
             opponent_copies == [i \in 1..Len(others) |->
                                    acc.ratings[opponent_ids[i]][session_type]]
             outcomes == [i \in 1..Len(others) |->
                             outcome(lineage_performance[k].perf,
                                     lineage_performance[others[i]].perf)]
         IN  apply_updates(
                 [ratings |->
                     [acc.ratings EXCEPT
                         ![lineage_id][session_type] =
                             update_glicko2(@, opponent_copies, outcomes),
                         ![lineage_id][matchups_field(session_type)] = @ + Len(outcomes)],
                  fed |-> Append(acc.fed,
                                 [lineage |-> lineage_id, session |-> session_type,
                                  opponents |-> opponent_ids, copies |-> opponent_copies,
                                  outcomes |-> outcomes])],
                 lineage_performance, session_type, k + 1)

\* Lines 311-352 and 373-412: nothing happens with fewer than two lineages.
counted(acc, lineage_performance, n) ==
    [ratings |-> acc.ratings, fed |-> acc.fed, performance |-> lineage_performance,
     matchup_count |-> (n * (n - 1)) \div 2]

process_matchups(ratings, lineage_performance, session_type) ==
    IF Len(lineage_performance) < 2
    THEN [ratings |-> ratings, fed |-> << >>, performance |-> lineage_performance,
          matchup_count |-> 0]
    ELSE counted(apply_updates([ratings |-> ratings, fed |-> << >>],
                               lineage_performance, session_type, 1),
                 lineage_performance, Len(lineage_performance))

\* The constructorId column of the rows, unique().
constructor_ids(results) == Unique(<< >>, [i \in 1..Len(results) |-> results[i].constructorId])

process_race_matchups(ratings, results, driver_elos) ==
    process_matchups(ratings,
                     lineage_performances(<< >>, constructor_ids(results), results, "race",
                                          driver_elos),
                     "race")

\* Line 357: the constructors with a row whose grid is present and positive.
process_qualifying_matchups(ratings, results, driver_elos) ==
    process_matchups(ratings,
                     lineage_performances(
                         << >>,
                         constructor_ids(SelectSeq(results,
                                                   LAMBDA r : notna(r.grid) /\ r.grid > 0)),
                         results, "qualifying", driver_elos),
                     "qualifying")

\* Lines 449-458: the participation of each constructor of the race.
RECURSIVE track_participation(_, _, _)
track_participation(ratings, constructors, race_id) ==
    IF constructors = << >> THEN ratings
    ELSE track_participation(
             IF Head(constructors) \in 1..Len(constructors_df)
             THEN [ratings EXCEPT
                      ![LineageOf[Head(constructors)]] =
                          [@ EXCEPT !.first_race_id = IF @ = NaN THEN race_id ELSE @,
                                    !.last_race_id = race_id,
                                    !.total_races = @ + 1]]
             ELSE ratings,
             Tail(constructors), race_id)

\* Lines 443-458 for one race: the qualifying matchups, then the race
\* matchups on the ratings they leave, then the participation.
tracked(q, r, results, race_id) ==
    [ratings |-> track_participation(r.ratings, constructor_ids(results), race_id),
     fed |-> q.fed \o r.fed,
     quali_performance |-> q.performance,
     race_performance |-> r.performance,
     quali_matchups |-> q.matchup_count,
     race_matchups |-> r.matchup_count]

after_qualifying(q, results, driver_elos, race_id) ==
    tracked(q, process_race_matchups(q.ratings, results, driver_elos), results, race_id)

process_race(ratings, results, driver_elos, race_id) ==
    after_qualifying(process_qualifying_matchups(ratings, results, driver_elos),
                     results, driver_elos, race_id)

\* Season normalization as the driver engine does it, applied to the
\* lineage ratings when the race read opens another season.
normalize_lineages(ratings, season, year) ==
    IF season # NaN /\ year # season
    THEN [l \in DOMAIN ratings |->
            [ratings[l] EXCEPT
                !.qualifying.rating =
                    @ + (GLICKO_RATING * Scale
                         - SumOver([x \in DOMAIN ratings |-> ratings[x].qualifying.rating],
                                   DOMAIN ratings) \div Cardinality(DOMAIN ratings)),
                !.race.rating =
                    @ + (GLICKO_RATING * Scale
                         - SumOver([x \in DOMAIN ratings |-> ratings[x].race.rating],
                                   DOMAIN ratings) \div Cardinality(DOMAIN ratings))]]
    ELSE ratings

\* Lines 439-441: the loop reads the race row; its year is printed every
\* hundredth race and used for nothing else, so the ratings stay as they are.
read_race_row(ratings, season, year) == ratings

(***************************************************************************)
(* SpecTeam: calculate_all_ratings, the replay of races.csv in (year,      *)
(* round) order.  The Driver_Elo table the calculator loads is held in     *)
(* driver_ratings; each race's year and result rows are drawn when the     *)
(* loop reads them.                                                        *)
(***************************************************************************)
MaxTeamRaces == 2

\* The Driver_Elo tables of the model: three drivers at the default
\* rating, or two drivers of whom the first is rated above it.
DriverEloTables ==
    { [d \in 1..3 |-> DefaultRating],
      [d \in 1..2 |-> IF d = 1
                      THEN [DefaultRating EXCEPT !.qualifying_elo = 1600 * Scale,
                                                 !.race_elo = 1550 * Scale]
                      ELSE DefaultRating] }

Row(constructorId, driverId, grid, positionOrder) ==
    [constructorId |-> constructorId, driverId |-> driverId, grid |-> grid,
     positionOrder |-> positionOrder]

\* The result rows of one race, in file order: no rows; two lineages; two
\* lineages in the other order; three lineages; two constructors of one
\* lineage against a third; one constructor averaging two drivers; a start
\* from the pit lane (grid 0); one lineage alone; a driver without a
\* Driver_Elo row.
ResultTables ==
    { << >>,
      <<Row(3, 1, 1, 1), Row(2, 2, 2, 2)>>,
      <<Row(2, 2, 2, 2), Row(3, 1, 1, 1)>>,
      <<Row(3, 1, 1, 1), Row(2, 2, 2, 2), Row(4, 3, 3, 3)>>,
      <<Row(1, 1, 2, 1), Row(2, 2, 1, 3), Row(3, 3, 3, 2)>>,
      <<Row(3, 1, 1, 2), Row(3, 2, 4, 4), Row(2, 3, 2, 3)>>,
      <<Row(3, 1, 0, 1), Row(2, 2, 1, 2)>>,
      <<Row(1, 1, 1, 1), Row(2, 2, 2, 2)>>,
      <<Row(3, 3, 1, 1), Row(4, 1, 2, 2)>> }

TeamInit ==
    /\ driver_ratings \in DriverEloTables
    /\ team_ratings = load_data
    /\ pc = "team_loop"
    /\ call = NoCall
    /\ pre = << >>
    /\ ncalls = 0
    /\ current_season = NaN
    /\ idx = 0
    /\ history = << >>

\* Lines 437-441: the loop reads the next race row.
ReadTeamRace ==
    /\ pc = "team_loop"
    /\ idx < MaxTeamRaces
    /\ \E year \in (IF current_season = NaN THEN {1}
                    ELSE {current_season, current_season + 1}) :
        /\ team_ratings' = read_race_row(team_ratings, current_season, year)
        /\ call' = [op |-> "read", season |-> current_season, year |-> year]
        /\ current_season' = year
    /\ idx' = idx + 1
    /\ pre' = team_ratings
    /\ pc' = "team_results"
    /\ UNCHANGED <<driver_ratings, ncalls, history>>

\* Lines 443-458: the qualifying matchups, the race matchups and the
\* participation of the race.
RaceProcessed(results, done) ==
    /\ team_ratings' = done.ratings
    /\ call' = [op |-> "team_event", results |-> results, fed |-> done.fed,
                quali_performance |-> done.quali_performance,
                race_performance |-> done.race_performance,
                quali_matchups |-> done.quali_matchups,
                race_matchups |-> done.race_matchups]

ProcessTeamRace ==
    /\ pc = "team_results"
    /\ \E results \in ResultTables :
          RaceProcessed(results, process_race(team_ratings, results, driver_ratings, idx))
    /\ pre' = team_ratings
    /\ pc' = "team_loop"
    /\ UNCHANGED <<driver_ratings, ncalls, current_season, idx, history>>

\* Lines 463-470: the races are exhausted; the totals are printed.
FinishTeamReplay ==
    /\ pc = "team_loop"
    /\ call' = NoCall
    /\ pre' = << >>
    /\ pc' = "team_done"
    /\ UNCHANGED <<driver_ratings, team_ratings, ncalls, current_season, idx, history>>

TeamNext == ReadTeamRace \/ ProcessTeamRace \/ FinishTeamReplay

SpecTeam == TeamInit /\ [][TeamNext]_vars

(***************************************************************************)
(* Claims about the team replay.                                           *)
(***************************************************************************)
\* C5: within one event and session every lineage's update is given, for
\* each opponent, the rating, RD and volatility the opponent held before
\* any lineage was updated in the event.
C5_OpponentsPreEvent ==
    (pc = "team_loop" /\ call.op = "team_event") =>
        \A u \in 1..Len(call.fed) :
            \A i \in 1..Len(call.fed[u].opponents) :
                call.fed[u].copies[i] = pre[call.fed[u].opponents[i]][call.fed[u].session]

\* The race read opens another season than the one before it.
SeasonTransition ==
    /\ pc = "team_results"
    /\ call.op = "read"
    /\ call.season # NaN
    /\ call.year # call.season

LineageSum(ratings, session) ==
    SumOver([l \in DOMAIN ratings |-> ratings[l][session].rating], DOMAIN ratings)

\* The mean rating of the lineage pool is the baseline, to within one
\* rating unit.
LineageMeanIsBaseline(ratings, session) ==
    LET n == Cardinality(DOMAIN ratings)
    IN  /\ n * GLICKO_RATING * Scale <= LineageSum(ratings, session)
        /\ LineageSum(ratings, session) < n * GLICKO_RATING * Scale + n

\* C9 as stated: when the team replay crosses into another season the
\* lineage ratings of each session are shifted so that the mean of the
\* lineage pool is the baseline 1500 again.
C9_LineagesRecentred ==
    SeasonTransition =>
        /\ LineageMeanIsBaseline(team_ratings, "qualifying")
        /\ LineageMeanIsBaseline(team_ratings, "race")

\* The updates of the event just processed that were the lineage's, for
\* the session.
UpdatesOf(lineage_id, session) ==
    {u \in 1..Len(call.fed) :
        call.fed[u].lineage = lineage_id /\ call.fed[u].session = session}

\* C9 amended: the team replay normalizes nothing.  Reading a race row, of
\* the same season or of another, leaves every lineage's ratings and
\* counters as they were; a lineage's rating, RD and volatility of a
\* session change only in an event in which the lineage is updated against
\* opponents in that session.
C9_NoLineageNormalization ==
    /\ (pc = "team_results" /\ call.op = "read") => team_ratings = pre
    /\ (pc = "team_loop" /\ call.op = "team_event") =>
          \A l \in DOMAIN team_ratings :
              /\ UpdatesOf(l, "qualifying") = {} => team_ratings[l].qualifying = pre[l].qualifying
              /\ UpdatesOf(l, "race") = {} => team_ratings[l].race = pre[l].race

\* A season transition met with a lineage pool whose mean is off the
\* baseline in both sessions, one lineage never having been updated.
C9_Witness ==
    /\ SeasonTransition
    /\ ~LineageMeanIsBaseline(team_ratings, "qualifying")
    /\ ~LineageMeanIsBaseline(team_ratings, "race")
    /\ \E l \in DOMAIN team_ratings : team_ratings[l].race_matchups = 0
    /\ \E l \in DOMAIN team_ratings : team_ratings[l].race_matchups > 0

(***************************************************************************)
(* SpecElite: the engine late in a replay.  The caller first has driver 1  *)
(* beat teammate 2 in a run of consecutive races, then makes any sequence  *)
(* of matchup and normalization calls.  After 53 races driver 1 is just    *)
(* below the elite threshold without the flag; race 54 takes it over the   *)
(* threshold.  idx counts the races of the run.                            *)
(***************************************************************************)
StreakLengths == {53, 54}

EliteInit ==
    /\ driver_ratings = << >>
    /\ pc = "streak"
    /\ call = NoCall
    /\ pre = << >>
    /\ ncalls = 0
    /\ current_season = NaN
    /\ idx = 0
    /\ history = << >>
    /\ team_ratings = << >>

\* One more race of the run: process_race_matchup(1, 2, 1, 2, 'Finished', 'Finished').
StreakRace ==
    /\ pc = "streak"
    /\ \E n \in StreakLengths : idx < n
    /\ LET r == process_race_matchup(driver_ratings, 1, 2, 1, 2, "Finished", "Finished")
       IN  /\ driver_ratings' = r.ratings
           /\ call' = Record("race", 1, 2, 1, 2, "Finished", "Finished", r)
    /\ pre' = driver_ratings
    /\ idx' = idx + 1
    /\ UNCHANGED <<pc, ncalls, current_season, history, team_ratings>>

\* The run is over; the calls that follow are free.
StreakEnd ==
    /\ pc = "streak"
    /\ idx \in StreakLengths
    /\ pc' = "idle"
    /\ call' = NoCall
    /\ pre' = << >>
    /\ UNCHANGED <<driver_ratings, ncalls, current_season, idx, history, team_ratings>>

EliteNext == StreakRace \/ StreakEnd \/ CallQualifying \/ CallRace \/ CallNormalize \/ Return

SpecElite == EliteInit /\ [][EliteNext]_vars

EliteField(op) == IF op = "qualifying" THEN "ever_elite_qualifying" ELSE "ever_elite_race"

\* C11: a tracked driver whose rating for a session type is at least 1750
\* has the ever-elite flag of that session type set, whether the rating got
\* there by a matchup update or by a normalization shift.
C11_EliteFlagTracksRating ==
    \A d \in DOMAIN driver_ratings :
        /\ driver_ratings[d].race_elo >= ELITE_THRESHOLD * Scale
              => driver_ratings[d].ever_elite_race
        /\ driver_ratings[d].qualifying_elo >= ELITE_THRESHOLD * Scale
              => driver_ratings[d].ever_elite_qualifying

\* The flags set in ratings a are still set in ratings b.
FlagsKept(a, b) ==
    \A d \in DOMAIN a :
        /\ d \in DOMAIN b
        /\ a[d].ever_elite_race => b[d].ever_elite_race
        /\ a[d].ever_elite_qualifying => b[d].ever_elite_qualifying

\* A matchup call that was applied gave K = 10 to each side whose flag of the
\* call's session type was set on entry.
EliteKFactor(c, before) ==
    (c.op \in {"qualifying", "race"} /\ c.ret = TRUE)
        => /\ Rating(before, c.winner)[EliteField(c.op)] => c.winner_k = K_ELITE
           /\ Rating(before, c.loser)[EliteField(c.op)] => c.loser_k = K_ELITE

\* C12: an ever-elite flag that is set stays set over every step of the
\* engine, matchups lost and normalizations included, and every matchup
\* applied to a driver whose flag is set uses K = 10 for that driver.
C12_EliteFlagPermanent ==
    [][ /\ FlagsKept(driver_ratings, driver_ratings')
        /\ pc' = "returned" => EliteKFactor(call', pre') ]_vars

\* An ever-elite driver rated below 1750 (after a loss) has just been through
\* another race matchup, with K = 10, and still has the flag.
C12_Witness ==
    /\ pc = "returned" /\ call.op = "race" /\ call.ret = TRUE
    /\ call.loser \in DOMAIN pre
    /\ pre[call.loser].ever_elite_race
    /\ pre[call.loser].race_elo < ELITE_THRESHOLD * Scale
    /\ call.loser_k = K_ELITE
    /\ driver_ratings[call.loser].ever_elite_race
    /\ driver_ratings[call.loser].race_elo < pre[call.loser].race_elo

\* A matchup has just been applied in which both drivers had the same
\* K-factor.
SameKMatchup ==
    /\ call.op \in {"qualifying", "race"}
    /\ call.ret = TRUE
    /\ call.winner_k = call.loser_k

\* C19: in a matchup that is applied with the same K-factor for both
\* drivers the winner's rating of the session strictly increases, the
\* loser's strictly decreases, and the gain equals the loss; so it is after
\* each of the first races of two rookie teammates of whom one is always
\* ahead.
C19_ZeroSumSameK ==
    SameKMatchup =>
        /\ Rating(driver_ratings, call.winner)[EloField(call.op)]
              > Rating(pre, call.winner)[EloField(call.op)]
        /\ Rating(driver_ratings, call.loser)[EloField(call.op)]
              < Rating(pre, call.loser)[EloField(call.op)]
        /\ Rating(driver_ratings, call.winner)[EloField(call.op)]
              - Rating(pre, call.winner)[EloField(call.op)]
           = Rating(pre, call.loser)[EloField(call.op)]
              - Rating(driver_ratings, call.loser)[EloField(call.op)]

\* The third consecutive race of rookie teammates 1 (ahead) and 2 has been
\* scored with K = 40 on both sides, driver 1 already being rated higher.
C19_Witness ==
    /\ pc = "streak" /\ idx = 3
    /\ SameKMatchup
    /\ call.winner = 1 /\ call.loser = 2
    /\ call.winner_k = K_ROOKIE
    /\ pre[1].race_elo > pre[2].race_elo
    /\ driver_ratings[1].race_elo > pre[1].race_elo

(***************************************************************************)
(* Claims about the matchups of one team event (checked under SpecTeam).   *)
(***************************************************************************)
TeamEvent == pc = "team_loop" /\ call.op = "team_event"

Sessions == {"qualifying", "race"}

\* The lineage performances the event computed for the session.
PerformanceOf(session) ==
    IF session = "race" THEN call.race_performance ELSE call.quali_performance

\* The rows of the event that give a usable sample for the session: the
\* driver has a Driver_Elo row and the position (race) or grid (qualifying)
\* is present and positive.
Usable(i, session) == car_performance(call.results[i], session, driver_ratings) # << >>

SampleValue(i, session) == car_performance(call.results[i], session, driver_ratings)[1]

\* The usable rows of a constructor, and of all constructors of a lineage.
ConstructorSamples(c, session) ==
    {i \in 1..Len(call.results) : call.results[i].constructorId = c /\ Usable(i, session)}

LineageSamples(lineage_id, session) ==
    UNION {ConstructorSamples(c, session) :
              c \in {x \in 1..Len(constructors_df) : LineageOf[x] = lineage_id}}

\* The mean of the sample values of a constructor's usable rows.
ConstructorMean(c, session) ==
    Quot(SumOver([i \in ConstructorSamples(c, session) |-> SampleValue(i, session)],
                 ConstructorSamples(c, session)),
         Cardinality(ConstructorSamples(c, session)))

\* C13 as stated: the performance of a lineage for an event and session is
\* the maximum of the adjusted performances of all its drivers with a
\* usable sample.
C13_LineageBestDriver ==
    TeamEvent =>
        \A s \in Sessions : \A k \in 1..Len(PerformanceOf(s)) :
            /\ \E i \in LineageSamples(PerformanceOf(s)[k].lineage, s) :
                  PerformanceOf(s)[k].perf = SampleValue(i, s)
            /\ \A i \in LineageSamples(PerformanceOf(s)[k].lineage, s) :
                  PerformanceOf(s)[k].perf >= SampleValue(i, s)

\* The constructors of the lineage that have a usable row in the session.
UsableConstructors(lineage_id, session) ==
    {c \in 1..Len(constructors_df) :
        LineageOf[c] = lineage_id /\ ConstructorSamples(c, session) # {}}

\* C13 amended: each constructor's value is the average of the adjusted
\* performances of its drivers with a usable sample, and the performance
\* of a lineage is the maximum of the values of its constructors; a lineage
\* has a performance exactly when one of its drivers has a usable sample.
C13_BestConstructorAverage ==
    TeamEvent =>
        \A s \in Sessions :
            /\ \A k \in 1..Len(PerformanceOf(s)) :
                  /\ \E c \in UsableConstructors(PerformanceOf(s)[k].lineage, s) :
                        PerformanceOf(s)[k].perf = ConstructorMean(c, s)
                  /\ \A c \in UsableConstructors(PerformanceOf(s)[k].lineage, s) :
                        PerformanceOf(s)[k].perf >= ConstructorMean(c, s)
                  /\ \A j \in 1..Len(PerformanceOf(s)) :
                        PerformanceOf(s)[j].lineage = PerformanceOf(s)[k].lineage => j = k
            /\ \A l \in DOMAIN team_ratings :
                  LineageSamples(l, s) # {}
                      => \E k \in 1..Len(PerformanceOf(s)) : PerformanceOf(s)[k].lineage = l

\* A constructor entered two drivers with different adjusted race
\* performances and its lineage's value lies strictly between the two.
C13_Witness ==
    /\ TeamEvent
    /\ \E k \in 1..Len(call.race_performance) :
          /\ \E i \in LineageSamples(call.race_performance[k].lineage, "race") :
                SampleValue(i, "race") > call.race_performance[k].perf
          /\ \E i \in LineageSamples(call.race_performance[k].lineage, "race") :
                SampleValue(i, "race") < call.race_performance[k].perf

\* The updates the event made in the session, and those of one lineage.
SessionUpdates(session) == {u \in 1..Len(call.fed) : call.fed[u].session = session}

\* The lineages with a performance value in the session, and the value.
Rated(session) == {PerformanceOf(session)[k].lineage : k \in 1..Len(PerformanceOf(session))}

PerfOfLineage(session, lineage_id) ==
    PerformanceOf(session)[CHOOSE k \in 1..Len(PerformanceOf(session)) :
                               PerformanceOf(session)[k].lineage = lineage_id].perf

\* The outcome the lineage of update u is given against its i-th opponent.
FedOutcome(u, i) == call.fed[u].outcomes[i]

\* Update u lists every other rated lineage exactly once, with the outcome
\* its performance earns: 1 when higher, 0 when lower, 0.5 when equal.
ListsEveryOther(u, session) ==
    /\ Len(call.fed[u].opponents) = Cardinality(Rated(session)) - 1
    /\ Len(call.fed[u].outcomes) = Cardinality(Rated(session)) - 1
    /\ {call.fed[u].opponents[i] : i \in 1..Len(call.fed[u].opponents)}
          = Rated(session) \ {call.fed[u].lineage}
    /\ \A i \in 1..Len(call.fed[u].opponents) :
          FedOutcome(u, i)
             = IF PerfOfLineage(session, call.fed[u].lineage)
                     > PerfOfLineage(session, call.fed[u].opponents[i]) THEN Scale
               ELSE IF PerfOfLineage(session, call.fed[u].lineage)
                     < PerfOfLineage(session, call.fed[u].opponents[i]) THEN 0
               ELSE Scale \div 2

\* The two sides of every pair were given complementary outcomes.
Complementary(session) ==
    \A u \in SessionUpdates(session), w \in SessionUpdates(session) :
        \A i \in 1..Len(call.fed[u].opponents), j \in 1..Len(call.fed[w].opponents) :
            (call.fed[u].opponents[i] = call.fed[w].lineage
             /\ call.fed[w].opponents[j] = call.fed[u].lineage)
                => FedOutcome(u, i) + FedOutcome(w, j) = Scale

MatchupsGrownBy(lineage_id, session, n) ==
    team_ratings[lineage_id][matchups_field(session)]
        = pre[lineage_id][matchups_field(session)] + n

SessionMatchups(session) ==
    IF session = "race" THEN call.race_matchups ELSE call.quali_matchups

\* C14: in an event and session with n >= 2 lineages having a performance
\* value, every pair of them is compared exactly once with complementary
\* outcomes, each of them gets exactly one update whose opponent and
\* outcome lists have length n - 1, and its matchup counter grows by n - 1;
\* a lineage without a value is in no update and its counter stays.  With
\* fewer than two such lineages there is no update at all.
C14_AllPairsOnce ==
    TeamEvent =>
        \A s \in Sessions :
            IF Cardinality(Rated(s)) < 2
            THEN /\ SessionUpdates(s) = {}
                 /\ SessionMatchups(s) = 0
                 /\ \A l \in DOMAIN team_ratings : MatchupsGrownBy(l, s, 0)
            ELSE /\ \A l \in Rated(s) :
                        /\ Cardinality({u \in SessionUpdates(s) : call.fed[u].lineage = l}) = 1
                        /\ MatchupsGrownBy(l, s, Cardinality(Rated(s)) - 1)
                 /\ \A u \in SessionUpdates(s) :
                        /\ call.fed[u].lineage \in Rated(s)
                        /\ ListsEveryOther(u, s)
                 /\ Complementary(s)
                 /\ 2 * SessionMatchups(s) = Cardinality(Rated(s)) * (Cardinality(Rated(s)) - 1)
                 /\ \A l \in DOMAIN team_ratings \ Rated(s) : MatchupsGrownBy(l, s, 0)

\* Three lineages had a race value: each was updated against the two
\* others and one of them won a comparison.
C14_Witness ==
    /\ TeamEvent
    /\ Cardinality(Rated("race")) = 3
    /\ \A l \in Rated("race") : MatchupsGrownBy(l, "race", 2)
    /\ \E u \in SessionUpdates("race") : \E i \in 1..2 : FedOutcome(u, i) = Scale

\* The lineage has no opponents in the session of the event: it has no
\* performance value there, or no other lineage has one.
NoOpponents(lineage_id, session) ==
    lineage_id \notin Rated(session) \/ Cardinality(Rated(session)) < 2

\* C15: in every event each tracked lineage without opponents in a session
\* goes through the no-opponent step of the rating period: update_glicko2
\* is applied to its rating with no opponents, so that its RD becomes
\* min(350, sqrt(RD^2 + volatility^2)) while rating and volatility stay.
C15_SitOutGrowsRD ==
    TeamEvent =>
        \A s \in Sessions : \A l \in DOMAIN team_ratings :
            NoOpponents(l, s) =>
                /\ \E u \in SessionUpdates(s) :
                      call.fed[u].lineage = l /\ call.fed[u].opponents = << >>
                /\ team_ratings[l][s] = update_glicko2(pre[l][s], << >>, << >>)

(***************************************************************************)
(* SpecGlicko: update_glicko2 on a rating drawn from GlickoRatings against *)
(* up to MaxOpponents opponents drawn from GlickoOpponents, with any       *)
(* outcomes.  The ratings are the state __init__ leaves and states of a    *)
(* long replay: a lineage that has won, or lost, every comparison of a     *)
(* hundred races and sits at a rating bound, and one in mid-field.         *)
(***************************************************************************)
MaxOpponents == 2

GlickoRatings ==
    { Glicko2Rating,
      [rating |-> 2200000, rd |-> 107300, volatility |-> 60],
      [rating |-> 800000, rd |-> 115900, volatility |-> 60],
      [rating |-> 1550000, rd |-> 90700, volatility |-> 60] }

GlickoOpponents ==
    { Glicko2Rating,
      [rating |-> 1550000, rd |-> 90700, volatility |-> 60],
      [rating |-> 1900000, rd |-> 150000, volatility |-> 60] }

Outcomes == {0, Scale \div 2, Scale}

GlickoCalls ==
    UNION { [op : {"update_glicko2"}, rating : GlickoRatings,
             opponents : [1..n -> GlickoOpponents], outcomes : [1..n -> Outcomes],
             ret : {NaN}] : n \in 0..MaxOpponents }

GlickoInit ==
    /\ call \in GlickoCalls
    /\ pc = "idle"
    /\ driver_ratings = << >>
    /\ team_ratings = << >>
    /\ pre = << >>
    /\ ncalls = 0
    /\ current_season = NaN
    /\ idx = 0
    /\ history = << >>

CallUpdateGlicko2 ==
    /\ pc = "idle"
    /\ call.op = "update_glicko2"
    /\ call' = [call EXCEPT !.ret = update_glicko2(call.rating, call.opponents, call.outcomes)]
    /\ pc' = "returned"
    /\ UNCHANGED <<driver_ratings, pre, ncalls>>
    /\ UNCHANGED replayVars

GlickoNext == CallUpdateGlicko2

SpecGlicko == GlickoInit /\ [][GlickoNext]_vars

InBounds(r) ==
    /\ MIN_RATING * Scale <= r.rating /\ r.rating <= MAX_RATING * Scale
    /\ MIN_RD * Scale <= r.rd /\ r.rd <= GLICKO_RD * Scale
    /\ MIN_VOLATILITY <= r.volatility /\ r.volatility <= MAX_VOLATILITY

\* C16: the initial rating (1500, 350, 0.06) is within the bounds, rating in
\* [800, 2200], RD in [30, 350], volatility in [0.01, 0.5], and
\* update_glicko2, with or without opponents, takes a rating within the
\* bounds to a rating within the bounds.
C16_RatingsInBounds ==
    /\ InBounds(Glicko2Rating)
    /\ (pc = "returned" /\ call.op = "update_glicko2")
          => (InBounds(call.rating) /\ InBounds(call.ret))

\* A lineage at the upper rating bound has won both comparisons of a rating
\* period and is still at the bound.
C16_Witness ==
    /\ pc = "returned" /\ call.op = "update_glicko2"
    /\ call.rating.rating = MAX_RATING * Scale
    /\ Len(call.opponents) = 2
    /\ \A i \in 1..2 : call.outcomes[i] = Scale
    /\ call.ret.rating = MAX_RATING * Scale
    /\ call.ret.rd < call.rating.rd

(***************************************************************************)
(* Claims about the pairing of the driver replay (checked under Spec).     *)
(***************************************************************************)
DriverEvent == pc = "loop" /\ call.op = "event"

\* The drivers entered in the event that share the team of d, d excluded.
Teammates(d) ==
    {x \in DOMAIN call.results : x # d /\ call.results[x].team_id = call.results[d].team_id}

\* The matchups of the event's record d took part in.
MatchupsWith(d) ==
    {m \in 1..Len(call.matchups) : d \in {call.matchups[m].d1, call.matchups[m].d2}}

\* The driver's record, tracked or not, is what it was before the event.
Untouched(d) ==
    /\ d \in DOMAIN driver_ratings <=> d \in DOMAIN pre
    /\ d \in DOMAIN pre => driver_ratings[d] = pre[d]

\* C17: every matchup of an event is between two distinct drivers entered
\* for the same team in that event, no unordered pair has two matchups of
\* one session in the event, and a driver who is the only entry of the team
\* is in no matchup and keeps rating, counters and flags.
C17_TeammatePairsOnly ==
    DriverEvent =>
        /\ Len(call.matchups) = call.quali_matchups + call.race_matchups
        /\ \A m \in 1..Len(call.matchups) :
              /\ call.matchups[m].d1 # call.matchups[m].d2
              /\ call.matchups[m].d1 \in DOMAIN call.results
              /\ call.matchups[m].d2 \in Teammates(call.matchups[m].d1)
        /\ \A m \in 1..Len(call.matchups), n \in 1..Len(call.matchups) :
              (/\ call.matchups[m].session = call.matchups[n].session
               /\ {call.matchups[m].d1, call.matchups[m].d2}
                     = {call.matchups[n].d1, call.matchups[n].d2})
                  => m = n
        /\ \A d \in DOMAIN call.results :
              Teammates(d) = {} => (MatchupsWith(d) = {} /\ Untouched(d))

\* Two teammates had their matchups while a driver tracked since an
\* earlier event was the only entry of another team.
C17_Witness ==
    /\ DriverEvent
    /\ Len(call.matchups) >= 2
    /\ \E d \in DOMAIN call.results :
          /\ Teammates(d) = {}
          /\ d \in DOMAIN pre
          /\ pre[d].race_races > 0

\* Driver d's row has no finishing position but a status that classifies
\* as a driver error, and teammate t's row is a finished, non-mechanical
\* result with a position.
NullPositionError(d, t) ==
    /\ t \in Teammates(d)
    /\ call.results[d].position = NaN
    /\ call.results[d].status # NULL
    /\ DriverError[call.results[d].status]
    /\ notna(call.results[t].position)
    /\ Finished[call.results[t].status]
    /\ ~Mechanical[call.results[t].status]

\* C18: a race row with a null finishing position and a DriverError status
\* is a non-finish: against a teammate with a finished, non-mechanical
\* result a race matchup is applied which the null-position driver loses,
\* and both drivers' race counters grow.
C18_NullPositionLoses ==
    DriverEvent =>
        \A d \in DOMAIN call.results, t \in DOMAIN call.results :
            NullPositionError(d, t) =>
                /\ \E m \in 1..Len(call.matchups) :
                      /\ call.matchups[m].session = "race"
                      /\ call.matchups[m].loser = d
                      /\ call.matchups[m].winner = t
                /\ Rating(driver_ratings, d).race_races > Rating(pre, d).race_races
                /\ Rating(driver_ratings, t).race_races > Rating(pre, t).race_races

(***************************************************************************)
(* SpecPipeline: the two programs run one after the other on the same      *)
(* tables.  calculate_driver_elo.py replays every race and writes the      *)
(* ratings it ends with to Driver_Elo; calculate_team_elo.py loads that    *)
(* table once and replays the same races.  The races are input: a list of  *)
(* up to MaxPipelineRaces result sets of one season is drawn, and the      *)
(* pipeline is run on the whole list and on its first k races.             *)
(***************************************************************************)
MaxPipelineRaces == 3

\* The result sets of the pipeline, drivers 1 and 2 classified as they
\* started: rivals in two lineages; teammates with driver 1 ahead;
\* teammates with driver 2 ahead.
PipelineEvents ==
    { [d \in {1, 2} |-> [team_id |-> d + 1, grid_position |-> d, position |-> d,
                         status |-> "Finished"]],
      [d \in {1, 2} |-> [team_id |-> 2, grid_position |-> d, position |-> d,
                         status |-> "Finished"]],
      [d \in {1, 2} |-> [team_id |-> 2, grid_position |-> 3 - d, position |-> 3 - d,
                         status |-> "Finished"]] }

\* calculate_all_elos, lines 399-470: the ratings held after the k-th race
\* of the list.
\* The loop keeping only the drivers of the race it processed last.
RECURSIVE ratings_after_reset(_, _, _)
ratings_after_reset(dr, events, k) ==
    IF k = 0 THEN dr
    ELSE ratings_after_reset(process_results(<< >>, Head(events)).ratings, Tail(events), k - 1)

RECURSIVE ratings_after(_, _, _)
ratings_after(dr, events, k) ==
    IF k = 0 THEN dr
    ELSE ratings_after(process_results(dr, Head(events)).ratings, Tail(events), k - 1)

\* calculate_all_elos over races of one season: the loop, then the final
\* normalization.
calculate_all_elos(events) ==
    IF events = << >> THEN << >>
    ELSE normalize_ratings(ratings_after(<< >>, events, Len(events)))

\* save_to_database: one Driver_Elo row for each rated driver, the ratings
\* rounded to two decimals.
save_to_database(dr) ==
    [d \in DOMAIN dr |->
        [dr[d] EXCEPT !.qualifying_elo = RoundDiv(dr[d].qualifying_elo, 10) * 10,
                      !.race_elo = RoundDiv(dr[d].race_elo, 10) * 10]]

\* The rows of results.csv for a race whose Result rows are `results`
\* (import_data.py copies constructorId, grid and position), in driverId
\* order.
results_df(results) ==
    [i \in 1..Cardinality(DOMAIN results) |->
        Row(results[Sorted(DOMAIN results)[i]].team_id, Sorted(DOMAIN results)[i],
            results[Sorted(DOMAIN results)[i]].grid_position,
            results[Sorted(DOMAIN results)[i]].position)]

PipelineInit ==
    /\ driver_ratings = << >>
    /\ team_ratings = load_data
    /\ pc = "tables"
    /\ call = NoCall
    /\ pre = << >>
    /\ ncalls = 0
    /\ current_season = 1
    /\ idx = 0
    /\ history = << >>

\* One more race is in the tables.
AddRace ==
    /\ pc = "tables"
    /\ Len(history) < MaxPipelineRaces
    /\ \E results \in PipelineEvents : history' = Append(history, results)
    /\ UNCHANGED <<driver_ratings, team_ratings, pc, call, pre, ncalls, current_season, idx>>

\* calculate_driver_elo.py, run twice: on the whole list (the ratings held
\* after its k-th race are kept in driver_ratings) and on the first k races
\* alone (kept in call).  pre holds the Driver_Elo table each run wrote.
\* Both runs rate at least one driver, so that Driver_Elo has rows.
Written(k, whole, first) ==
    /\ DOMAIN first # {}
    /\ driver_ratings' = ratings_after(<< >>, history, k)
    /\ pre' = [whole |-> whole, first |-> first]
    /\ call' = [op |-> "pipeline", k |-> k,
                driver_ratings |-> ratings_after(<< >>, SubSeq(history, 1, k), k),
                team_ratings |-> load_data]

RunDriverElo ==
    /\ pc = "tables"
    /\ \E k \in 1..Len(history) :
          Written(k, save_to_database(calculate_all_elos(history)),
                  save_to_database(calculate_all_elos(SubSeq(history, 1, k))))
    /\ pc' = "team_loop"
    /\ UNCHANGED <<team_ratings, ncalls, current_season, idx, history>>

\* calculate_team_elo.py, lines 432-453, after each of the two runs: the
\* next race of the list is processed with the Driver_Elo table load_data
\* read, up to race k.
TeamRace ==
    /\ pc = "team_loop"
    /\ team_ratings' = process_race(read_race_row(team_ratings, 1, 1),
                                    results_df(history[idx + 1]), pre.whole, idx + 1).ratings
    /\ call' = [call EXCEPT !.team_ratings =
                    process_race(read_race_row(call.team_ratings, 1, 1),
                                 results_df(history[idx + 1]), pre.first, idx + 1).ratings]
    /\ idx' = idx + 1
    /\ pc' = IF idx + 1 = call.k THEN "compared" ELSE "team_loop"
    /\ UNCHANGED <<driver_ratings, pre, ncalls, current_season, history>>

PipelineNext == AddRace \/ RunDriverElo \/ TeamRace

SpecPipeline == PipelineInit /\ [][PipelineNext]_vars

\* C20: the rating state held after the k-th event is determined by events
\* 1..k alone: the replay of the whole list and the replay of its first k
\* events hold the same driver ratings and the same lineage ratings after
\* event k.
C20_NoFutureInfluence ==
    pc = "compared" =>
        /\ driver_ratings = call.driver_ratings
        /\ team_ratings = call.team_ratings

(***************************************************************************)
(* SpecIngest: the Race table as calculate_all_elos reads it.  The rows of *)
(* the table are input, in any order (the order of races.csv);  the query  *)
(* at lines 388-393 orders them by (race_date, round_number) and the loop  *)
(* replays the ordered rows.  history holds the rows in table order, pre   *)
(* the rows as the query returned them, idx the number of rows replayed.   *)
(***************************************************************************)
MaxTableRaces == 3

\* The rows of the Race table: two races on one date, a later race of the
\* same season, a race of the next season.
RaceRows ==
    { [race_date |-> 1, round_number |-> 1, season_year |-> 1],
      [race_date |-> 1, round_number |-> 2, season_year |-> 1],
      [race_date |-> 2, round_number |-> 3, season_year |-> 1],
      [race_date |-> 3, round_number |-> 1, season_year |-> 2] }

\* (race_date, round_number) of row a is smaller than that of row b.
KeyLess(a, b) ==
    \/ a.race_date < b.race_date
    \/ a.race_date = b.race_date /\ a.round_number < b.round_number

\* ORDER BY r.race_date, r.round_number
RECURSIVE OrderBy(_)
OrderBy(rows) ==
    IF rows = {} THEN << >>
    ELSE LET first == CHOOSE r \in rows : \A q \in rows \ {r} : KeyLess(r, q)
         IN  <<first>> \o OrderBy(rows \ {first})

\* The Race tables: up to MaxTableRaces different rows in any order.
RECURSIVE RaceTables(_)
RaceTables(n) ==
    IF n = 0 THEN {<< >>}
    ELSE LET shorter == RaceTables(n - 1)
         IN  shorter \cup {Append(t, r) : t \in {s \in shorter : Len(s) = n - 1},
                                          r \in RaceRows} 

Rng(s) == {s[i] : i \in 1..Len(s)}

IngestInit ==
    /\ history \in {t \in RaceTables(MaxTableRaces) : Cardinality(Rng(t)) = Len(t)}
    /\ pre = OrderBy(Rng(history))
    /\ driver_ratings = << >>
    /\ team_ratings = << >>
    /\ pc = "loop"
    /\ call = NoCall
    /\ ncalls = 0
    /\ current_season = NaN
    /\ idx = 0

\* Lines 399-467: the next row of the ordered query result is replayed:
\* the ratings are normalized when its season differs from the current one,
\* then every teammate pair of its results is processed.
ReplayRace ==
    /\ pc = "loop"
    /\ idx < Len(pre)
    /\ \E results \in {e \in PipelineEvents : e[1].team_id = e[2].team_id} :
          /\ driver_ratings' =
                process_results(IF season_changed(current_season, pre[idx + 1].season_year)
                                THEN normalize_ratings(driver_ratings)
                                ELSE driver_ratings, results).ratings
          /\ call' = [op |-> "replayed", race |-> pre[idx + 1], results |-> results]
    /\ current_season' = pre[idx + 1].season_year
    /\ idx' = idx + 1
    /\ UNCHANGED <<team_ratings, pc, pre, ncalls, history>>

\* Lines 474-476: the rows are exhausted; the last season is normalized.
ReplayDone ==
    /\ pc = "loop"
    /\ idx = Len(pre)
    /\ driver_ratings' = IF current_season # NaN THEN normalize_ratings(driver_ratings)
                         ELSE driver_ratings
    /\ call' = NoCall
    /\ pc' = "done"
    /\ UNCHANGED <<team_ratings, pre, ncalls, current_season, idx, history>>

IngestNext == ReplayRace \/ ReplayDone

SpecIngest == IngestInit /\ [][IngestNext]_vars

\* The table positions whose row has a smaller key than the row before it.
Offenders == {i \in 2..Len(history) : KeyLess(history[i], history[i - 1])}

\* C21: when an event arrives with a smaller (date, round) key than its
\* predecessor, the replay fails fast: it ends in an error outcome, never
\* completes, and replays neither the offending event nor any later one
\* (fewer events are replayed than arrived before the first offender).
C21_FailFastOnDisorder ==
    Offenders # {} =>
        /\ pc # "done"
        /\ \A i \in Offenders : idx < i

(***************************************************************************)
(* Lifecycle of rating state, under SpecPipeline.                          *)
(***************************************************************************)
TeamProgramRunning == pc \in {"team_loop", "compared"}

\* Driver d had a teammate in one of the first n races (every row of the
\* pipeline's races is a classified finisher, so the pair is a processed
\* matchup).
DriverMatched(d, n) ==
    \E j \in 1..n :
        /\ d \in DOMAIN history[j]
        /\ \E e \in DOMAIN history[j] \ {d} : history[j][e].team_id = history[j][d].team_id

\* The matchups counted for lineage l so far.
LineageMatchups(l) == team_ratings[l].qualifying_matchups + team_ratings[l].race_matchups

\* One race's gain of a fresh driver against a fresh teammate.
FreshGain == (K_ROOKIE * Scale) \div 2

\* Drivers: state exists exactly for the drivers matched so far, and a
\* driver whose first matchup is in race k holds the default state moved by
\* that race alone.
DriverLifecycle ==
    \A d \in Drivers :
        /\ d \in DOMAIN driver_ratings <=> DriverMatched(d, call.k)
        /\ (DriverMatched(d, call.k) /\ ~DriverMatched(d, call.k - 1)) =>
              /\ driver_ratings[d].qualifying_races = 1
              /\ driver_ratings[d].race_races = 1
              /\ Abs(driver_ratings[d].qualifying_elo - INITIAL_RATING * Scale) = FreshGain
              /\ Abs(driver_ratings[d].race_elo - INITIAL_RATING * Scale) = FreshGain
              /\ ~driver_ratings[d].ever_elite_qualifying
              /\ ~driver_ratings[d].ever_elite_race
        \* later races, the final normalization and the export keep the driver
        /\ d \in DOMAIN driver_ratings => d \in DOMAIN pre.whole

\* C22 as stated: rating state exists only for competitors that have
\* appeared in a matchup, for drivers and for lineages.
C22_CreatedAtFirstMatchup ==
    TeamProgramRunning =>
        /\ DriverLifecycle
        /\ \A l \in DOMAIN team_ratings : LineageMatchups(l) > 0

\* C22 amended: a driver's rating state does not exist before the driver's
\* first processed matchup, is created with the default values by it and
\* is kept by later matchups, normalization and export; a lineage's rating
\* state is created with the default values by load_data for every lineage
\* of the constructors table, before any event, holds them until the
\* lineage's first race, and is never deleted.
C22_LifecycleAsCoded ==
    TeamProgramRunning =>
        /\ DriverLifecycle
        /\ DOMAIN team_ratings = DOMAIN load_data
        /\ \A l \in DOMAIN team_ratings :
              team_ratings[l].total_races = 0 => team_ratings[l] = load_data[l]

C22_Witness ==
    /\ pc = "compared"
    /\ call.k = 2
    /\ DriverMatched(1, 2) /\ ~DriverMatched(1, 1)
    /\ team_ratings["ferrari"].total_races = 1
    /\ team_ratings["redbull_lineage"] = load_data["redbull_lineage"]

(***************************************************************************)
(* SpecSolver: one call of update_glicko2 with at least one opponent, the  *)
(* root-finding loop of lines 202-212 taken one iteration at a time.  The  *)
(* call's arguments are input: ratings within the bounds update_glicko2    *)
(* keeps, among them ratings of high volatility and low RD, for which the  *)
(* loop is slow.  pre holds the locals of the call: a, delta**2, phi**2,   *)
(* v, the sum of g * (outcome - E), the steps of the bracketing search     *)
(* (increments of k) and the loop's variables s.                           *)
(***************************************************************************)
SolverRatings ==
    { Glicko2Rating,
      [rating |-> 800000, rd |-> 30000, volatility |-> 400],
      [rating |-> 1550000, rd |-> 90700, volatility |-> 60],
      [rating |-> 2200000, rd |-> 107300, volatility |-> 500] }

SolverOpponents ==
    { [rating |-> 800000, rd |-> 350000, volatility |-> 60],
      [rating |-> 1000000, rd |-> 250000, volatility |-> 60],
      [rating |-> 1550000, rd |-> 90700, volatility |-> 60] }

SolverCalls ==
    UNION { [op : {"update_glicko2"}, rating : SolverRatings,
             opponents : [1..n -> SolverOpponents], outcomes : [1..n -> Outcomes],
             ret : {NaN}] : n \in 1..MaxOpponents }

SolverInit ==
    /\ call \in SolverCalls
    /\ pc = "called"
    /\ pre = << >>
    /\ driver_ratings = << >>
    /\ team_ratings = << >>
    /\ ncalls = 0
    /\ current_season = NaN
    /\ idx = 0
    /\ history = << >>

\* Lines 188-200: the bracket [A, B] and the loop's variables.
Bracketed(a, delta2, phi2, v, mu_update) ==
    pre' = [a |-> a, delta2 |-> delta2, phi2 |-> phi2, v |-> v, mu_update |-> mu_update,
            steps |-> IF delta2 > phi2 + v THEN 0 ELSE bracket(1, a, delta2, phi2, v) - 1,
            s |-> loop_entry(a, bracket_end(a, delta2, phi2, v), delta2, phi2, v)]

\* Lines 156-177: v, delta and a.
Prepared(own, v, mu_update) ==
    Bracketed(2 * Ln(call.rating.volatility), Square(Quot(v * mu_update, Scale)),
              Quot(own.phi * own.phi, Scale), v, mu_update)

\* Lines 156-200: the call up to the loop.
EnterLoop ==
    /\ pc = "called"
    /\ Prepared(to_glicko_scale(call.rating),
                variance(v_sum(to_glicko_scale(call.rating).mu, call.opponents, 1)),
                delta_sum(to_glicko_scale(call.rating).mu, call.opponents, call.outcomes, 1))
    /\ pc' = "loop"
    /\ UNCHANGED <<driver_ratings, call, ncalls>>
    /\ UNCHANGED replayVars

\* Lines 202-212: one iteration of the loop.
Iterate ==
    /\ pc = "loop"
    /\ loop_continues(pre.s)
    /\ pre' = [pre EXCEPT !.s = loop_body(pre.s, pre.a, pre.delta2, pre.phi2, pre.v)]
    /\ UNCHANGED <<driver_ratings, pc, call, ncalls>>
    /\ UNCHANGED replayVars

\* Lines 214-235: the loop has ended; the volatility, the RD and the rating
\* are stored and the call returns.
LeaveLoop ==
    /\ pc = "loop"
    /\ ~loop_continues(pre.s)
    /\ call' = [call EXCEPT !.ret = store(call.rating, to_glicko_scale(call.rating).mu,
                                          to_glicko_scale(call.rating).phi, pre.v,
                                          pre.mu_update, clipped_sigma(pre.s.A))]
    /\ pc' = "returned"
    /\ UNCHANGED <<driver_ratings, pre, ncalls>>
    /\ UNCHANGED replayVars

SolverNext == EnterLoop \/ Iterate \/ LeaveLoop

SpecSolver == SolverInit /\ [][SolverNext]_vars

\* The work of the two searches stays within their caps, the loop is left
\* at the cap, and a call that has returned stored a volatility within
\* [0.01, 0.5].
WithinCaps ==
    /\ pc \in {"loop", "returned"} =>
          /\ pre.steps < 100
          /\ pre.s.iteration <= max_iterations
    /\ (pc = "loop" /\ pre.s.iteration = max_iterations) => ~loop_continues(pre.s)
    /\ pc = "returned" =>
          /\ MIN_VOLATILITY <= call.ret.volatility
          /\ call.ret.volatility <= MAX_VOLATILITY

\* Every step inside the loop is one more iteration.
Counted == (pc = "loop" /\ pc' = "loop") => pre'.s.iteration = pre.s.iteration + 1

\* C23: every call of update_glicko2 with at least one opponent terminates:
\* the bracketing search takes fewer than 100 steps, the root-finding loop
\* at most 100 iterations (each step of the loop counts one, and at 100
\* the loop is left), and the call returns, also when the loop stops at
\* the cap with A and B still further apart than the tolerance, having
\* stored a volatility within [0.01, 0.5].
C23_SolverTerminates == []WithinCaps /\ [][Counted]_vars

\* A call whose loop stopped at the cap, A and B still apart, has returned.
C23_Witness ==
    /\ pc = "returned"
    /\ pre.s.iteration = max_iterations
    /\ Abs(pre.s.B - pre.s.A) > epsilon
    /\ pre.s.fB # pre.s.fA

(***************************************************************************)
(* Further claims about normalize_ratings (checked under SpecNormalize).   *)
(***************************************************************************)
NormalizeReturned == pc = "returned" /\ call.op = "normalize"

\* C24: normalize_ratings on a pool whose qualifying mean and race mean are
\* already the baseline 1500 (as they are right after a previous
\* normalize_ratings) leaves every driver's qualifying and race rating
\* unchanged.
C24_NormalizeIdempotent ==
    (/\ NormalizeReturned
     /\ pre # << >>
     /\ MeanIsBaseline(pre, "qualifying_elo")
     /\ MeanIsBaseline(pre, "race_elo"))
        => \A d \in DOMAIN pre :
              /\ driver_ratings[d].qualifying_elo = pre[d].qualifying_elo
              /\ driver_ratings[d].race_elo = pre[d].race_elo

\* The second normalize_ratings in a row, on a pool of drivers with
\* different ratings, has returned.
C24_Witness ==
    /\ NormalizeReturned
    /\ ncalls = 2
    /\ MeanIsBaseline(pre, "qualifying_elo")
    /\ MeanIsBaseline(pre, "race_elo")
    /\ \E d, e \in DOMAIN pre :
          /\ pre[d].qualifying_elo # pre[e].qualifying_elo
          /\ pre[d].race_elo # INITIAL_RATING * Scale

(***************************************************************************)
(* SpecLineage: calls of ConstructorLineage.get_lineage, one after the     *)
(* other, on identifiers as data files and callers may spell them: keys,   *)
(* keys in upper case, with spaces or hyphens, identifiers that are no     *)
(* key, a lineage name and the empty string.  pre holds the class          *)
(* attribute LINEAGE_MAP, history the calls made with their results.       *)
(***************************************************************************)
MaxLookups == 2

ConstructorRefs ==
    {"brawn", "mercedes", "ferrari", "Red Bull", "red_bull", "Red-Bull", "redbull",
     "RB", "Ferrari", "force-india", "Lotus F1", "team_lotus", "alfa", "alfa romeo",
     "BMW-Sauber", "mercedes_lineage", ""}

LineageInit ==
    /\ pre = LINEAGE_MAP
    /\ pc = "idle"
    /\ call = NoCall
    /\ history = << >>
    /\ driver_ratings = << >>
    /\ team_ratings = << >>
    /\ ncalls = 0
    /\ current_season = NaN
    /\ idx = 0

\* Lines 65-68: the call reads the table and returns.
GetLineage ==
    /\ Len(history) < MaxLookups
    /\ \E constructor_ref \in ConstructorRefs :
          /\ call' = [op |-> "get_lineage", constructor_ref |-> constructor_ref,
                      ret |-> get_lineage(constructor_ref)]
          /\ history' = Append(history, call')
    /\ pc' = "returned"
    /\ UNCHANGED <<driver_ratings, team_ratings, pre, ncalls, current_season, idx>>

LineageNext == GetLineage

SpecLineage == LineageInit /\ [][LineageNext]_vars

\* The identifier as the table spells keys: lower case, spaces and hyphens
\* as underscores.
AsKey(constructor_ref) ==
    LET s == RefChars(constructor_ref)
    IN  [i \in 1..Len(s) |->
            CASE s[i] \in {" ", "-", "_"} -> "_"
              [] s[i] \in DOMAIN LowerOf -> LowerOf[s[i]]
              [] OTHER -> s[i]]

\* C25: get_lineage is a function of the identifier over a table no call
\* changes: an identifier whose normalized form is a key of the table gets
\* that key's lineage (whichever entry holds the key), any other identifier
\* gets itself, and equal identifiers get equal results.
C25_LineageLookup ==
    /\ pre = LINEAGE_MAP
    /\ \A n \in 1..Len(history) :
          /\ \A i \in 1..Len(pre) :
                pre[i].key = AsKey(history[n].constructor_ref)
                    => history[n].ret = pre[i].lineage
          /\ (\A i \in 1..Len(pre) : pre[i].key # AsKey(history[n].constructor_ref))
                => history[n].ret = history[n].constructor_ref
          /\ \A m \in 1..Len(history) :
                history[m].constructor_ref = history[n].constructor_ref
                    => history[m].ret = history[n].ret

\* A hyphenated upper-case spelling resolved to its lineage after an unknown
\* identifier was returned as it is.
C25_Witness ==
    /\ Len(history) = 2
    /\ history[1].constructor_ref = "alfa romeo" /\ history[1].ret = "alfa romeo"
    /\ history[2].constructor_ref = "BMW-Sauber" /\ history[2].ret = "sauber_lineage"

(***************************************************************************)
(* SpecUpdate: one call of update_elo_ratings (update_rankings.py).  The   *)
(* database is input: pre holds whether the file exists, whether it has    *)
(* the table `races` that get_latest_race_info reads (import_data.py       *)
(* creates Race, not races), and the Driver_Elo table as an earlier run    *)
(* on the first races left it; history holds the races of the Race and     *)
(* Result tables.  driver_ratings are the ratings of the call's            *)
(* TeammateBasedF1Elo object.                                              *)
(***************************************************************************)
RECURSIVE RaceLists(_)
RaceLists(n) ==
    IF n = 0 THEN {<< >>}
    ELSE RaceLists(n - 1) \cup
         {Append(h, e) : h \in {x \in RaceLists(n - 1) : Len(x) = n - 1}, e \in PipelineEvents}

UpdateInit ==
    /\ history \in RaceLists(MaxPipelineRaces)
    /\ \E k \in 0..Len(history), exists \in BOOLEAN, races \in BOOLEAN :
          pre = [exists |-> exists, races |-> races,
                 Driver_Elo |-> save_to_database(calculate_all_elos(SubSeq(history, 1, k)))]
    /\ call = [op |-> "update_elo_ratings", ret |-> "pending"]
    /\ pc = "called"
    /\ driver_ratings = << >>
    /\ team_ratings = << >>
    /\ ncalls = 0
    /\ current_season = NaN
    /\ idx = 0

\* Lines 56-58: no database file, the call returns False.
CheckDatabaseExists ==
    /\ pc = "called"
    /\ IF pre.exists
       THEN pc' = "latest_race" /\ call' = call
       ELSE pc' = "returned" /\ call' = [call EXCEPT !.ret = "False"]
    /\ UNCHANGED <<driver_ratings, team_ratings, pre, ncalls, current_season, idx, history>>

\* Lines 60-68: get_latest_race_info runs outside the try block; without
\* the table `races` its query raises and the call ends with the exception.
GetLatestRaceInfo ==
    /\ pc = "latest_race"
    /\ IF pre.races
       THEN pc' = "try" /\ call' = call
       ELSE pc' = "raised" /\ call' = [call EXCEPT !.ret = "OperationalError"]
    /\ UNCHANGED <<driver_ratings, team_ratings, pre, ncalls, current_season, idx, history>>

\* Lines 73-87: a calculator is made, calculate_all_elos replays the races
\* and the call returns True.  Nothing in between writes the database.
RunCalculation ==
    /\ pc = "try"
    /\ driver_ratings' = calculate_all_elos(history)
    /\ call' = [call EXCEPT !.ret = "True"]
    /\ pc' = "returned"
    /\ UNCHANGED <<team_ratings, pre, ncalls, current_season, idx, history>>

UpdateNext == CheckDatabaseExists \/ GetLatestRaceInfo \/ RunCalculation

SpecUpdate == UpdateInit /\ [][UpdateNext]_vars

\* C27: when update_elo_ratings has returned True, the Driver_Elo table
\* holds the ratings this call's replay computed, as save_to_database
\* writes them.
C27_SuccessMeansSaved ==
    (pc = "returned" /\ call.ret = "True")
        => pre.Driver_Elo = save_to_database(driver_ratings)

(***************************************************************************)
(* Claims about the frame and the K-factors of one matchup call (checked   *)
(* under SpecEngine and SpecElite).                                        *)
(***************************************************************************)
SessionFields(op) == {EloField(op), RacesField(op), EliteField(op)}

\* C28: a matchup call that was applied keeps every tracked driver, leaves
\* every driver other than its two participants as it was, and changes of
\* the two participants' records only the rating, the counter and the flag
\* of the call's session type, the counter growing by exactly 1 (a
\* participant not tracked before starts from the default record).
C28_MatchupFrame ==
    (IsMatchupCall /\ call.ret = TRUE) =>
        /\ DOMAIN driver_ratings = DOMAIN pre \cup {call.d1, call.d2}
        /\ \A d \in DOMAIN driver_ratings \ {call.d1, call.d2} : driver_ratings[d] = pre[d]
        /\ \A d \in {call.d1, call.d2} :
              /\ driver_ratings[d][RacesField(call.op)]
                    = Rating(pre, d)[RacesField(call.op)] + 1
              /\ \A field \in DOMAIN DefaultRating \ SessionFields(call.op) :
                    driver_ratings[d][field] = Rating(pre, d)[field]

\* A race matchup was applied to a driver who had a qualifying matchup
\* before, while a third driver is tracked.
C28_Witness ==
    /\ IsMatchupCall /\ call.ret = TRUE /\ call.op = "race"
    /\ call.d1 \in DOMAIN pre
    /\ pre[call.d1].qualifying_races = 1
    /\ pre[call.d1].qualifying_elo # INITIAL_RATING * Scale
    /\ driver_ratings[call.d1].race_elo # pre[call.d1].race_elo
    /\ \E d \in DOMAIN pre : d \notin {call.d1, call.d2}

\* The K-factor of driver d's state on entry of the call just made, for the
\* call's session type: 10 with the flag set, else 40 below 30 counted
\* matchups, else 20.
KBefore(d) ==
    IF Rating(pre, d)[EliteField(call.op)] THEN 10
    ELSE IF Rating(pre, d)[RacesField(call.op)] <= 29 THEN 40
    ELSE 20

\* C29: in a matchup that is applied each side is updated with the K-factor
\* of its own state on entry: 40 with 29 counted matchups and no flag, 20
\* with 30, and a driver whose flag is set by the matchup is still updated
\* with the K-factor it had without the flag, 10 coming with the next one.
C29_OwnPreMatchupK ==
    (call.op \in {"qualifying", "race"} /\ call.ret = TRUE) =>
        /\ call.winner_k = KBefore(call.winner)
        /\ call.loser_k = KBefore(call.loser)
        /\ ScoredWinLoss(call.winner, call.loser)

\* The matchup that took driver 1 over 1750 for the first time was applied
\* with K = 20 for it.
C29_Witness ==
    /\ call.op = "race" /\ call.ret = TRUE /\ call.winner = 1
    /\ 1 \in DOMAIN pre
    /\ ~pre[1].ever_elite_race
    /\ pre[1].race_races >= 30
    /\ pre[1].race_elo < 1750 * Scale
    /\ driver_ratings[1].race_elo >= 1750 * Scale
    /\ driver_ratings[1].ever_elite_race
    /\ call.winner_k = 20

\* C30: normalize_ratings keeps the tracked drivers, the difference of any
\* two drivers' ratings of each session type, and every driver's counters
\* and flags.
C30_NormalizePreservesDifferences ==
    NormalizeReturned =>
        /\ DOMAIN driver_ratings = DOMAIN pre
        /\ \A d \in DOMAIN pre, e \in DOMAIN pre :
              /\ driver_ratings[d].qualifying_elo - driver_ratings[e].qualifying_elo
                    = pre[d].qualifying_elo - pre[e].qualifying_elo
              /\ driver_ratings[d].race_elo - driver_ratings[e].race_elo
                    = pre[d].race_elo - pre[e].race_elo
        /\ \A d \in DOMAIN pre :
              \A field \in {"qualifying_races", "race_races",
                            "ever_elite_qualifying", "ever_elite_race"} :
                  driver_ratings[d][field] = pre[d][field]

\* Three drivers of whom two differ in both ratings were shifted in both
\* session types.
C30_Witness ==
    /\ NormalizeReturned
    /\ Cardinality(DOMAIN pre) = 3
    /\ \E d \in DOMAIN pre, e \in DOMAIN pre :
          /\ pre[d].qualifying_elo < pre[e].qualifying_elo
          /\ pre[d].race_elo > pre[e].race_elo
          /\ driver_ratings[d].qualifying_elo # pre[d].qualifying_elo
          /\ driver_ratings[d].race_elo # pre[d].race_elo
====
